---- MODULE Spec2Model ----
(***************************************************************************)
(* A model of kybra_simple_db: the entity layer (entity.py), the property  *)
(* and relation descriptors (properties.py), the hook gate (hooks.py) and  *)
(* the database engine (db_engine.py) over the in-memory store             *)
(* (storage.py).                                                           *)
(*                                                                         *)
(* Every operation of the library is a pure operator from a program state  *)
(* record (store, system counters, identity map, instances, pending        *)
(* exception) to the next one, so that a handler and every call it makes   *)
(* compose into one action.  A raised exception is the field err; an       *)
(* operator applied to a state with a pending exception is never reached   *)
(* because every caller tests err after each call, as the interpreter      *)
(* unwinds.                                                                *)
(***************************************************************************)
EXTENDS Integers, Sequences, FiniteSets, TLC

VARIABLES store,    \* primary key-value store: <<type, id>> -> stored record
          sys,      \* the "_system" keys: <<type, "id" | "count">> -> string
          reg,      \* identity map: <<type, id>> -> instance handle
          inst,     \* every Entity object constructed so far, by handle
          held,     \* handles the caller has a reference to
          gone,     \* handles whose delete() has returned normally
          last,     \* the last top-level call: what it was and how it ended
          audit,    \* the Database's audit switch and its audit storage
          caller    \* the ambient caller id that _save reads

vars == <<store, sys, reg, inst, held, gone, last, audit, caller>>

----------------------------------------------------------------------------
(* Bounds of the model *)

\* Entity objects one behaviour of the lifecycle specification constructs.
MaxInst == 2

----------------------------------------------------------------------------
(* Python values: None, int and str.  A str is a sequence of characters,   *)
(* so that str(), int() and len() are computed and not assumed.            *)

PyNone == [t |-> "none", i |-> 0, s |-> <<>>]
PyInt(n) == [t |-> "int", i |-> n, s |-> <<>>]
PyStr(cs) == [t |-> "str", i |-> 0, s |-> cs]

DigitChars == <<"0", "1", "2", "3", "4", "5", "6", "7", "8", "9">>

\* str(n) for an int n >= 0
RECURSIVE StrOfNat(_)
StrOfNat(n) ==
    IF n < Len(DigitChars) THEN <<DigitChars[n + 1]>>
    ELSE StrOfNat(n \div Len(DigitChars)) \o <<DigitChars[(n % Len(DigitChars)) + 1]>>

\* str(n)
StrOfInt(n) == IF n < 0 THEN <<"-">> \o StrOfNat(0 - n) ELSE StrOfNat(n)

AllDigits(cs) ==
    Len(cs) > 0 /\ \A k \in 1..Len(cs) : \E d \in 1..Len(DigitChars) : DigitChars[d] = cs[k]

\* int(cs) succeeds (no ValueError): an optional sign, then digits
IsIntStr(cs) ==
    IF Len(cs) > 0 /\ cs[1] \in {"-", "+"} THEN AllDigits(Tail(cs)) ELSE AllDigits(cs)

RECURSIVE NatOfStr(_)
NatOfStr(cs) ==
    IF cs = <<>> THEN 0
    ELSE NatOfStr(SubSeq(cs, 1, Len(cs) - 1)) * Len(DigitChars)
         + (CHOOSE d \in 1..Len(DigitChars) : DigitChars[d] = cs[Len(cs)]) - 1

\* int(cs), for a cs that IsIntStr accepts
IntOfStr(cs) ==
    IF cs[1] = "-" THEN 0 - NatOfStr(Tail(cs))
    ELSE IF cs[1] = "+" THEN NatOfStr(Tail(cs))
    ELSE NatOfStr(cs)

----------------------------------------------------------------------------
(* The entity classes the library is exercised with.                       *)
(*   User: a name gated by the hook (length >= 3) and a validated age.     *)
(*   Person and Profile, Department and Employee, Student and Course: the  *)
(*   relationship test classes, one pair for each kind of relation.        *)
(*   Record: an Entity with the TimestampedMixin and one string, value.    *)
(*   Product: version 2 of a class whose version 1 had no price; a float   *)
(*   is the number of its hundredths.                                      *)
(*   Citizen, Passport and Licence: two one-to-one relations of one class, *)
(*   whose targets both name their side "citizen".                         *)

\* Property descriptors of a class, in class-body order
Props(T) ==
    CASE T = "User" -> <<"name", "age">>
      [] T = "Profile" -> <<"bio">>
      [] T = "Record" -> <<"value">>
      [] T = "Account" -> <<"name", "is_protected">>
      [] T = "AliasEntity" -> <<"name", "value">>
      [] T = "Product" -> <<"name", "price">>
      [] OTHER -> <<"name">>

\* __alias__ of a class, "" for a class without one
Alias(T) == IF T = "AliasEntity" THEN "name" ELSE ""

\* Entity._alias_key: the type name followed by "_alias"
alias_key(T) == IF T = "AliasEntity" THEN "AliasEntity_alias" ELSE ""

\* Property.type of a descriptor
PropType(T, f) ==
    IF f \in {"age", "is_protected"} THEN "int" ELSE IF f = "price" THEN "float" ELSE "str"

\* Relation descriptors of a class, in class-body order
RelNames(T) ==
    CASE T = "Person" -> <<"profile">>
      [] T = "Profile" -> <<"person">>
      [] T = "Department" -> <<"employees">>
      [] T = "Employee" -> <<"department">>
      [] T = "Student" -> <<"courses">>
      [] T = "Course" -> <<"students">>
      [] T = "Citizen" -> <<"passport", "licence">>
      [] T = "Passport" -> <<"citizen">>
      [] T = "Licence" -> <<"citizen">>
      [] OTHER -> <<>>

\* The descriptor class, target type and reverse_name of a relation
RelDecl(T, r) ==
    CASE r = "employees" -> [kind |-> "OneToMany", target |-> "Employee", reverse |-> "department"]
      [] r = "department" -> [kind |-> "ManyToOne", target |-> "Department", reverse |-> "employees"]
      [] r = "profile" -> [kind |-> "OneToOne", target |-> "Profile", reverse |-> "person"]
      [] r = "person" -> [kind |-> "OneToOne", target |-> "Person", reverse |-> "profile"]
      [] r = "courses" -> [kind |-> "ManyToMany", target |-> "Course", reverse |-> "students"]
      [] r = "students" -> [kind |-> "ManyToMany", target |-> "Student", reverse |-> "courses"]
      [] r = "passport" -> [kind |-> "OneToOne", target |-> "Passport", reverse |-> "citizen"]
      [] r = "licence" -> [kind |-> "OneToOne", target |-> "Licence", reverse |-> "citizen"]
      [] r = "citizen" -> [kind |-> "OneToOne", target |-> "Citizen",
                           reverse |-> IF T = "Passport" THEN "passport" ELSE "licence"]

SeqToSet(q) == {q[k] : k \in 1..Len(q)}

IsRelation(T, r) == r \in SeqToSet(RelNames(T))

\* Entity.__version__
ClassVersion == 1

\* cls.__version__
Version(T) == IF T = "Product" THEN 2 ELSE ClassVersion

\* cls.migrate(obj, from_version, to_version): Product gives a version 1
\* record without a price the price 9.99; the default returns obj
migrate(T, rec, from, to) ==
    IF T = "Product" /\ from = 1 /\ to >= 2 /\ "price" \notin DOMAIN rec.data.props
    THEN [rec EXCEPT !.data.props = ("price" :> [t |-> "float", i |-> 999, s |-> <<>>]) @@ @]
    ELSE rec

\* Integer(min_value=0, max_value=150)
AgeMin == 0
AgeMax == 150

\* The hook's minimum length of a name
NameMinLen == 3

\* Integer's validator closure; String() without bounds accepts every string
Validator(T, f, v) ==
    IF f = "age" THEN v.i >= AgeMin /\ v.i <= AgeMax ELSE TRUE

\* The class's on_event.  User: reject a non-empty name shorter than
\* NameMinLen.  Account: reject the deletion of a protected account.
on_event(o, f, old, new, action) ==
    IF o.type = "Account"
    THEN IF action = "delete" /\ o.props["is_protected"] = PyInt(1)
         THEN [allow |-> FALSE, value |-> PyNone]
         ELSE [allow |-> TRUE, value |-> new]
    ELSE IF f = "name" /\ new.t = "str" /\ new.s # <<>> /\ Len(new.s) < NameMinLen
         THEN [allow |-> FALSE, value |-> PyNone]
         ELSE [allow |-> TRUE, value |-> new]

\* hooks.call_entity_hook: the class hook's verdict, or (True, new_value)
call_entity_hook(o, f, old, new, action) ==
    IF o.type \in {"User", "Account"} THEN on_event(o, f, old, new, action)
    ELSE [allow |-> TRUE, value |-> new]

----------------------------------------------------------------------------
(* Program state threaded through a call: ret is the returned handle (0 is *)
(* None), acc a list under construction, pos the index of the list element *)
(* at which a loop raised, mig the calls of a class's migrate so far,      *)
(* hooks the calls of a class's on_event so far (action and field).        *)

Cur ==
    [store |-> store, sys |-> sys, reg |-> reg, inst |-> inst, audit |-> audit,
     caller |-> caller, err |-> "", ret |-> 0, acc |-> <<>>, pos |-> 0, mig |-> <<>>,
     hooks |-> <<>>]

Raise(s, e) == [s EXCEPT !.err = e]

\* context._current_caller and the default of os.environ.get("CALLER_ID")

\* Database.__init__ with audit_enabled: an audit storage holding "_min_id"
\* and "_max_id", both "0"

\* dict[k] = v
Put(f, k, v) == (k :> v) @@ f

\* del dict[k]
Drop(f, k) == [x \in DOMAIN f \ {k} |-> f[x]]

Key(T, id) == <<T, id>>

\* Database._audit with "_max_id" left as it is
AuditNoIncrement(s, op, key, data) ==
    IF s.audit.enabled
    THEN [s EXCEPT !.audit.log = Put(@, s.audit.max, [op |-> op, key |-> key, data |-> data])]
    ELSE s

\* Database._audit(op, key, data): with auditing on, the record is inserted
\* under the current "_max_id", which is then incremented.  The record's
\* timestamp is left out.
Audit(s, op, key, data) ==
    IF s.audit.enabled
    THEN [s EXCEPT !.audit.log = Put(@, s.audit.max, [op |-> op, key |-> key, data |-> data]),
                   !.audit.max = StrOfInt(IntOfStr(s.audit.max) + 1)]
    ELSE s

\* Database.save / Database.load on "_system" keys
SysSave(s, k, v) == Audit([s EXCEPT !.sys = Put(s.sys, k, v)], "save", <<"_system", k>>, v)

\* db.load("_system", k) or "0"
SysLoadOr0(s, k) == IF k \in DOMAIN s.sys THEN s.sys[k] ELSE <<"0">>

\* Database.save(type, id, data): storage.insert of the encoded record
DbSave(s, T, id, data) ==
    Audit([s EXCEPT !.store = Put(s.store, Key(T, id), data)], "save", Key(T, id), data)

\* Database.load(type, id) is not None
DbHas(s, T, id) == Key(T, id) \in DOMAIN s.store

\* Database.delete: MemoryStorage.remove raises KeyError for an absent key
DbDelete(s, T, id) ==
    IF Key(T, id) \in DOMAIN s.store
    THEN Audit([s EXCEPT !.store = Drop(s.store, Key(T, id))],
               "delete", Key(T, id), s.store[Key(T, id)])
    ELSE Raise(s, "KeyError: Key not found in storage")

\* Database.update: the stored dictionary, when there is a non-empty one,
\* gets the field set and is saved, and the update is audited
DbUpdate(s, T, id, field, value) ==
    IF DbHas(s, T, id) /\ DOMAIN s.store[Key(T, id)] # {}
    THEN Audit(DbSave(s, T, id, Put(s.store[Key(T, id)], field, value)),
               "update", Key(T, id), Put(s.store[Key(T, id)], field, value))
    ELSE s

\* Database.register_entity: the identity map's entry for the instance
register_entity(s, h) ==
    [s EXCEPT !.reg = Put(s.reg, Key(s.inst[h].type, s.inst[h].id), h)]

\* Database.unregister_entity
unregister_entity(s, T, id) ==
    IF s.err = "" /\ Key(T, id) \in DOMAIN s.reg
    THEN [s EXCEPT !.reg = Drop(s.reg, Key(T, id))]
    ELSE s

\* Database.get_entity: the registered handle, 0 for None
get_entity(s, T, id) == IF Key(T, id) \in DOMAIN s.reg THEN s.reg[Key(T, id)] ELSE 0

\* Database.clear_registry
clear_registry(s) == [s EXCEPT !.reg = <<>>]

\* Entity.count
count(s, T) == IntOfStr(SysLoadOr0(s, <<T, "count">>))

\* Entity.max_id
max_id(s, T) == IntOfStr(SysLoadOr0(s, <<T, "id">>))

----------------------------------------------------------------------------
(* Entity objects *)

\* The attributes Entity.__init__ sets before it touches the database, and
\* _pending_relations, which deserialize sets
NewInst(T, id, loaded) ==
    [type |-> T, id |-> id, loaded |-> loaded, counted |-> FALSE, dns |-> FALSE,
     pending |-> <<>>,
     mix |-> [stamped |-> FALSE, owner |-> "", creator |-> "", updater |-> ""],
     props |-> [f \in SeqToSet(Props(T)) |->
                  IF f = "price" THEN [t |-> "float", i |-> 0, s |-> <<>>] ELSE PyNone],
     rels |-> [r \in SeqToSet(RelNames(T)) |-> <<>>]]

\* == on entities (Entity.__eq__): same type and id; None equals only None
EntEq(s, a, b) ==
    IF a = 0 \/ b = 0 THEN a = b
    ELSE s.inst[a].type = s.inst[b].type /\ s.inst[a].id = s.inst[b].id

\* x in list, by ==
InList(s, x, q) == \E k \in 1..Len(q) : EntEq(s, q[k], x)

\* list.remove(x): drops the first element equal to x
RECURSIVE ListRemove(_, _, _)
ListRemove(s, q, x) ==
    IF q = <<>> THEN <<>>
    ELSE IF EntEq(s, Head(q), x) THEN Tail(q)
    ELSE <<Head(q)>> \o ListRemove(s, Tail(q), x)

\* The relation part of Entity.serialize: a relation with no entities is left
\* out, a single-valued one is a bare id, a *ToMany one always a list
SerializeRel(s, h, r) ==
    LET o == s.inst[h]
        q == o.rels[r]
        toMany == RelDecl(o.type, r).kind \in {"OneToMany", "ManyToMany"}
        ids == [k \in 1..Len(q) |-> s.inst[q[k]].id]
    IN IF q = <<>> THEN [form |-> "absent", ids |-> <<>>]
       ELSE IF Len(q) = 1 /\ ~toMany THEN [form |-> "one", ids |-> ids]
       ELSE [form |-> "list", ids |-> ids]

\* getattr(e, "_id") raises AttributeError when a relation list holds None
SerializeRaises(s, h) ==
    \E r \in DOMAIN s.inst[h].rels : \E k \in 1..Len(s.inst[h].rels[r]) : s.inst[h].rels[r][k] = 0

\* Entity.serialize
serialize(s, h) ==
    LET o == s.inst[h]
    IN [type |-> o.type, id |-> o.id, mix |-> o.mix, props |-> o.props,
        rels |-> [r \in DOMAIN o.rels |-> SerializeRel(s, h, r)]]

\* The count increment of _save, for an entity that is neither loaded nor
\* counted yet
CountNew(s, h) ==
    LET T == s.inst[h].type
    IN IF s.inst[h].loaded \/ s.inst[h].counted THEN s
       ELSE [SysSave(s, <<T, "count">>, StrOfInt(count(s, T) + 1))
                EXCEPT !.inst[h].counted = TRUE]

\* TimestampedMixin._update_timestamps(caller_id): the first call sets the
\* creation timestamp, the creator and the owner; every call sets the update
\* timestamp and the updater
update_timestamps(o, c) ==
    IF o.mix.stamped THEN [o.mix EXCEPT !.updater = c]
    ELSE [stamped |-> TRUE, owner |-> c, creator |-> c, updater |-> c]

\* The mixin part of _save: once the entity has a creation timestamp only
\* its owner may save it
Stamp(s, h) ==
    LET o == s.inst[h]
    IN IF o.type # "Record" THEN s
       ELSE IF o.mix.stamped /\ o.mix.owner # s.caller THEN Raise(s, "PermissionError: Only the owner can update this entity")
       ELSE [s EXCEPT !.inst[h].mix = update_timestamps(o, s.caller)]

\* The alias part of _save: the alias value, unless it is None, is mapped to
\* the id under the class's alias key
SaveAlias(s, h) ==
    LET o == s.inst[h]
    IN IF Alias(o.type) = "" THEN s
       ELSE IF o.props[Alias(o.type)].t = "none" THEN s
       ELSE DbSave(s, alias_key(o.type), o.props[Alias(o.type)].s, o.id)

\* The last part of _save: serialize, and unless _do_not_save is set write
\* the record and mark the entity loaded
Persist(s, h) ==
    LET o == s.inst[h]
    IN IF s.err # "" THEN s
       ELSE IF SerializeRaises(s, h) THEN Raise(s, "AttributeError: object has no attribute")
       ELSE IF o.dns THEN s
       ELSE [SaveAlias(DbSave(s, o.type, o.id,
                              [data |-> serialize(s, h), version |-> Version(o.type)]), h)
                EXCEPT !.inst[h].loaded = TRUE]

\* Entity._save.  _id is never None here: __init__ assigns it before the
\* first call.
Save(s, h) ==
    IF s.err # "" THEN s
    ELSE IF ~s.inst[h].loaded /\ DbHas(s, s.inst[h].type, s.inst[h].id) THEN Raise(s, "ValueError: Entity already exists")
    ELSE Persist(Stamp(CountNew(s, h), h), h)

\* The coercion of Property.__set__: a str given to an int or float property
\* is parsed (of the strings float() accepts, those int() accepts are
\* covered), any other type mismatch is a TypeError
Coerce(T, f, v) ==
    IF v.t = "none" \/ v.t = PropType(T, f) THEN [ok |-> TRUE, v |-> v]
    ELSE IF v.t = "str" /\ PropType(T, f) = "int"
         THEN IF IsIntStr(v.s) THEN [ok |-> TRUE, v |-> PyInt(IntOfStr(v.s))]
              ELSE [ok |-> FALSE, v |-> v]
    ELSE IF v.t = "str" /\ PropType(T, f) = "float"
         THEN IF IsIntStr(v.s) THEN [ok |-> TRUE, v |-> [t |-> "float", i |-> 100 * IntOfStr(v.s), s |-> <<>>]]
              ELSE [ok |-> FALSE, v |-> v]
    ELSE [ok |-> FALSE, v |-> v]

\* Property.__set__ with the value stored before the validator has run
PropertySetEarly(s, h, f, value) ==
    LET o == s.inst[h]
        old == o.props[f]
        action == IF ~o.loaded THEN "create" ELSE "modify"
        hk == call_entity_hook(o, f, old, value, action)
        c == Coerce(o.type, f, hk.value)
        s1 == [s EXCEPT !.inst[h].props[f] = c.v]
    IN IF ~hk.allow THEN Raise(s, "ValueError: Hook rejected change")
       ELSE IF ~c.ok THEN Raise(s, "TypeError: must be of type")
       ELSE IF c.v.t # "none" /\ ~Validator(o.type, f, c.v) THEN Raise(s1, "ValueError: Invalid value")
       ELSE Save(s1, h)

\* The end of Property.__set__, for the hook's verdict hk: coerce, validate,
\* store the value and save
PropertyStore(s, h, f, hk) ==
    LET T == s.inst[h].type
        c == Coerce(T, f, hk.value)
    IN IF ~hk.allow THEN Raise(s, "ValueError: Hook rejected change")
       ELSE IF ~c.ok THEN Raise(s, "TypeError: must be of type")
       ELSE IF c.v.t # "none" /\ ~Validator(T, f, c.v) THEN Raise(s, "ValueError: Invalid value")
       ELSE Save([s EXCEPT !.inst[h].props[f] = c.v], h)

\* Property.__set__
PropertySet(s, h, f, value) ==
    LET o == s.inst[h]
        action == IF ~o.loaded THEN "create" ELSE "modify"
    IN PropertyStore([s EXCEPT !.hooks = IF o.type \in {"User", "Account"}
                                         THEN Append(@, [action |-> action, field |-> f])
                                         ELSE @],
                     h, f, call_entity_hook(o, f, o.props[f], value, action))

----------------------------------------------------------------------------
(* Relations (properties.py, Entity.add_relation / remove_relation) *)

\* What is assigned or passed to a relation: an Entity, an id string or None,
\* alone or in a Python list
NoneRef == [k |-> "none", h |-> 0, s |-> <<>>]
EntRef(h) == [k |-> "ent", h |-> h, s |-> <<>>]
StrRef(cs) == [k |-> "str", h |-> 0, s |-> cs]
One(ref) == [list |-> FALSE, items |-> <<ref>>]
List(refs) == [list |-> TRUE, items |-> refs]

\* Entity.get_relations(name)
get_relations(s, h, r) ==
    IF r \in DOMAIN s.inst[h].rels THEN s.inst[h].rels[r] ELSE <<>>

\* set(list): the elements of the list, one for each class of == elements
PySet(s, q) ==
    {q[k] : k \in {j \in 1..Len(q) : \A i \in 1..(j - 1) : ~EntEq(s, q[i], q[j])}}

\* a - b on sets of entities
PyDiff(s, a, b) == {x \in a : \A y \in b : ~EntEq(s, x, y)}

RECURSIVE Ascending(_)
Ascending(S) ==
    IF S = {} THEN <<>>
    ELSE LET m == CHOOSE x \in S : \A y \in S : x <= y
         IN <<m>> \o Ascending(S \ {m})

\* The order in which a set is iterated.  Python fixes it by the elements'
\* hashes; ord is the order the caller of the model chose for the elements
\* it lists, and the others follow.
Iter(S, ord) ==
    SelectSeq(ord, LAMBDA x : x \in S) \o Ascending(S \ SeqToSet(ord))

\* if x not in e._relations[r]: e._relations[r].append(x)
AddEdge(s, h, r, x) ==
    IF InList(s, x, get_relations(s, h, r)) THEN s
    ELSE [s EXCEPT !.inst[h].rels[r] = Append(@, x)]

\* if x in e._relations[r]: e._relations[r].remove(x)
DelEdge(s, h, r, x) ==
    IF InList(s, x, get_relations(s, h, r))
    THEN [s EXCEPT !.inst[h].rels[r] = ListRemove(s, @, x)]
    ELSE s

\* Entity.add_relation without the reverse edge
add_relation_oneway(s, h, from, to, other) ==
    IF s.err # "" THEN s
    ELSE IF other = 0 THEN Raise(AddEdge(s, h, from, other), "AttributeError: object has no attribute")
    ELSE Save(Save(AddEdge(s, h, from, other), h), other)

\* Entity.add_relation(from_rel, to_rel, other), for relation names the two
\* classes declare: the forward edge, the reverse edge (other._relations
\* raises for None), then both entities are saved
add_relation(s, h, from, to, other) ==
    IF s.err # "" THEN s
    ELSE IF other = 0 THEN Raise(AddEdge(s, h, from, other), "AttributeError: object has no attribute")
    ELSE Save(Save(AddEdge(AddEdge(s, h, from, other), other, to, h), h), other)

\* Entity.remove_relation(from_rel, to_rel, other)
remove_relation(s, h, from, to, other) ==
    IF s.err # "" THEN s
    ELSE IF other = 0 THEN Raise(DelEdge(s, h, from, other), "AttributeError: object has no attribute")
    ELSE Save(Save(DelEdge(DelEdge(s, h, from, other), other, to, h), h), other)

\* The one-to-many step left out
DetachNone(s, h, r, e) == s

\* The one-to-many step of Relation.__set__ and of RelationList.add: an
\* entity that has another owner is taken out of that owner's list, and the
\* owner out of the entity's; neither is saved.  None has no get_relations.
Detach(s, h, r, e) ==
    LET rev == RelDecl(s.inst[h].type, r).reverse
        owners == get_relations(s, e, rev)
        old == owners[1]
    IN IF s.err # "" THEN s
       ELSE IF e = 0 THEN Raise(s, "AttributeError: object has no attribute")
       ELSE IF owners = <<>> THEN s
       ELSE IF EntEq(s, old, h) THEN s
       ELSE IF old = 0 THEN Raise(s, "AttributeError: object has no attribute")
       ELSE IF ~InList(s, e, get_relations(s, old, r)) THEN Raise(s, "ValueError: list.remove(x): x not in list")
       ELSE [s EXCEPT !.inst[old].rels[r] = ListRemove(s, @, e),
                      !.inst[e].rels[rev] = ListRemove(s, @, old)]

RECURSIVE DetachLoop(_, _, _, _)
DetachLoop(s, h, r, es) ==
    IF es = <<>> \/ s.err # "" THEN s
    ELSE DetachLoop(Detach(s, h, r, Head(es)), h, r, Tail(es))

RECURSIVE RemoveLoop(_, _, _, _)
RemoveLoop(s, h, r, es) ==
    IF es = <<>> \/ s.err # "" THEN s
    ELSE RemoveLoop(remove_relation(s, h, r, RelDecl(s.inst[h].type, r).reverse, Head(es)),
                    h, r, Tail(es))

RECURSIVE AddLoop(_, _, _, _)
AddLoop(s, h, r, es) ==
    IF es = <<>> \/ s.err # "" THEN s
    ELSE AddLoop(add_relation(s, h, r, RelDecl(s.inst[h].type, r).reverse, Head(es)),
                 h, r, Tail(es))

\* Relation.__set__ on the values its subclasses pass, which are the list
\* s.acc of resolved entities for a many=True relation and the one value
\* s.ret (an entity or None) otherwise: detach for one-to-many, then remove
\* existing - new, then add new - existing
RelationSet(s, h, r, ord) ==
    LET kind == RelDecl(s.inst[h].type, r).kind
        existing == PySet(s, get_relations(s, h, r))
        new == PySet(s, IF kind \in {"OneToMany", "ManyToMany"} THEN s.acc ELSE <<s.ret>>)
    IN IF s.err # "" THEN s
       ELSE AddLoop(RemoveLoop(IF kind = "OneToMany"
                               THEN DetachLoop(s, h, r, Iter(new, ord))
                               ELSE s,
                               h, r, Iter(PyDiff(s, existing, new), ord)),
                    h, r, Iter(PyDiff(s, new, existing), ord))

\* Relation.validate_entity on the resolved value s.ret: None passes, an
\* entity must be of the declared type
validate_entity(s, h, r) ==
    IF s.err # "" THEN s
    ELSE IF s.ret = 0 \/ s.inst[s.ret].type = RelDecl(s.inst[h].type, r).target THEN s
    ELSE Raise(s, "TypeError: must be set an Entity instance of the types")

\* db._entity_types.get(name): a class is registered by its first instance
TypeRegistered(s, T) == \E k \in 1..Len(s.inst) : s.inst[k].type = T

RECURSIVE load(_, _, _)

\* The second half of Entity.__class_getitem__: when no entity has the key
\* as its id and the class has an alias, the id stored for the key as alias
\* value is loaded
AliasLookup(s, T, key) ==
    IF s.err # "" \/ s.ret # 0 \/ Alias(T) = "" THEN s
    ELSE IF DbHas(s, alias_key(T), key) /\ s.store[Key(alias_key(T), key)] # <<>>
         THEN load(s, T, s.store[Key(alias_key(T), key)])
    ELSE s

\* Entity.__class_getitem__(key): the entity with that id, else the entity
\* with that alias value, else None
class_getitem(s, T, key) == AliasLookup(load(s, T, key), T, key)

\* The end of Relation.resolve_entity: the entity found, else ValueError
FoundOrRaise(s) == IF s.err = "" /\ s.ret = 0 THEN Raise(s, "ValueError: No entity found with ID or name") ELSE s

\* Relation.resolve_entity: None, the entity itself, or the entity of the
\* target class that the string names, else ValueError
resolve_entity(s, h, r, ref) ==
    LET T == RelDecl(s.inst[h].type, r).target
    IN IF ref.k = "none" THEN [s EXCEPT !.ret = 0]
       ELSE IF ref.k = "ent" THEN [s EXCEPT !.ret = ref.h]
       ELSE IF ~TypeRegistered(s, T) THEN Raise(s, "ValueError: No entity found with ID or name")
       ELSE FoundOrRaise(class_getitem(s, T, ref.s))

\* The check of the __set__ methods that the resolved value's class declares
\* the reverse relation with the kind this relation needs, else ValueError
CheckReverse(s, h, r, kind) ==
    IF s.err # "" THEN s
    ELSE IF s.ret = 0 \/ ~IsRelation(s.inst[s.ret].type, RelDecl(s.inst[h].type, r).reverse)
         THEN Raise(s, "ValueError: Reverse property must be")
    ELSE IF RelDecl(s.inst[s.ret].type, RelDecl(s.inst[h].type, r).reverse).kind # kind
         THEN Raise(s, "ValueError: Reverse property must be")
    ELSE s

\* One turn of the loop over an assigned list ends: the resolved value is
\* kept, or the exception leaves the loop at element k
Collect(s, k) ==
    IF s.err # "" THEN [s EXCEPT !.pos = k] ELSE [s EXCEPT !.acc = Append(@, s.ret)]

\* obj.add_relation(name, reverse_name, resolved)
AddResolved(s, h, r) == add_relation(s, h, r, RelDecl(s.inst[h].type, r).reverse, s.ret)

\* The loop over the list with each element linked as soon as it has passed
RECURSIVE ResolveLoopEager(_, _, _, _, _, _)
ResolveLoopEager(s, h, r, items, k, kind) ==
    IF s.err # "" \/ k > Len(items) THEN s
    ELSE ResolveLoopEager(
            Collect(AddResolved(CheckReverse(validate_entity(resolve_entity(s, h, r, items[k]),
                                                             h, r), h, r, kind), h, r), k),
            h, r, items, k + 1, kind)

\* The loop of OneToMany.__set__ and ManyToMany.__set__ over the list:
\* resolve, validate, check the reverse descriptor; nothing is changed yet
RECURSIVE ResolveLoop(_, _, _, _, _, _)
ResolveLoop(s, h, r, items, k, kind) ==
    IF s.err # "" \/ k > Len(items) THEN s
    ELSE ResolveLoop(
            Collect(CheckReverse(validate_entity(resolve_entity(s, h, r, items[k]), h, r),
                                 h, r, kind), k),
            h, r, items, k + 1, kind)

\* OneToMany.__set__
OneToManySet(s, h, r, val, ord) ==
    IF ~val.list THEN Raise(s, "TypeError: requires a list of entities")
    ELSE RelationSet(ResolveLoop([s EXCEPT !.acc = <<>>], h, r, val.items, 1, "ManyToOne"),
                     h, r, ord)

\* ManyToMany.__set__: a single entity or string is a list of one; None
\* reaches Relation.__set__, which wants a list
ManyToManySet(s, h, r, val, ord) ==
    IF ~val.list /\ val.items[1].k = "none" THEN Raise(s, "TypeError: requires a list of entities")
    ELSE RelationSet(ResolveLoop([s EXCEPT !.acc = <<>>], h, r, val.items, 1, "ManyToMany"),
                     h, r, ord)

\* ManyToOne.__set__: None goes to Relation.__set__ as it is
ManyToOneSet(s, h, r, val, ord) ==
    IF val.list THEN Raise(s, "ValueError: cannot be set to multiple values")
    ELSE RelationSet(IF val.items[1].k = "none" THEN [s EXCEPT !.ret = 0]
                     ELSE CheckReverse(validate_entity(resolve_entity(s, h, r, val.items[1]),
                                                       h, r), h, r, "OneToMany"),
                     h, r, ord)

\* The part of OneToOne.__set__ that removes the owner's current relation:
\* __get__ gives the first element of the list, and None is skipped
RemoveCurrent(s, h, r) ==
    LET cur == get_relations(s, h, r)
    IN IF s.err # "" THEN s
       ELSE IF cur = <<>> THEN s
       ELSE IF cur[1] = 0 THEN s
       ELSE remove_relation(s, h, r, RelDecl(s.inst[h].type, r).reverse, cur[1])

\* The part of OneToOne.__set__ that unlinks the present partner of the
\* resolved value s.ret, on both sides
UnlinkPartner(s, h, r) ==
    LET rev == RelDecl(s.inst[h].type, r).reverse
        existing == get_relations(s, s.ret, rev)
    IN IF s.err # "" THEN s
       ELSE IF existing = <<>> THEN s
       ELSE IF existing[1] = 0 THEN Raise(s, "AttributeError: object has no attribute")
       ELSE remove_relation(remove_relation(s, existing[1], r, rev, s.ret),
                            s.ret, rev, r, existing[1])

\* OneToOne.__set__: None goes to Relation.__set__ as it is
OneToOneSet(s, h, r, val, ord) ==
    IF val.list THEN Raise(s, "ValueError: cannot be set to multiple values")
    ELSE RelationSet(IF val.items[1].k = "none" THEN [s EXCEPT !.ret = 0]
                     ELSE UnlinkPartner(
                             RemoveCurrent(
                                CheckReverse(resolve_entity(s, h, r, val.items[1]),
                                             h, r, "OneToOne"), h, r), h, r),
                     h, r, ord)

\* obj.<r> = val, through the descriptor the class declares for r
RelAssign(s, h, r, val, ord) ==
    LET kind == RelDecl(s.inst[h].type, r).kind
    IN CASE kind = "OneToOne" -> OneToOneSet(s, h, r, val, ord)
         [] kind = "OneToMany" -> OneToManySet(s, h, r, val, ord)
         [] kind = "ManyToOne" -> ManyToOneSet(s, h, r, val, ord)
         [] kind = "ManyToMany" -> ManyToManySet(s, h, r, val, ord)

\* The one-to-many step of RelationList.add on the resolved value
DetachResolved(s, h, r) ==
    IF RelDecl(s.inst[h].type, r).kind = "OneToMany" THEN Detach(s, h, r, s.ret) ELSE s

\* RelationList.add(entity)
RelationListAdd(s, h, r, ref) ==
    AddResolved(DetachResolved(validate_entity(resolve_entity(s, h, r, ref), h, r), h, r), h, r)

\* RelationList.remove(entity): the argument goes to remove_relation as it
\* is; a string has no _relations
RelationListRemove(s, h, r, ref) ==
    IF ref.k = "str" THEN Raise(s, "AttributeError: object has no attribute")
    ELSE remove_relation(s, h, r, RelDecl(s.inst[h].type, r).reverse, ref.h)

\* setattr(self, k, v) through the class's descriptor
SetAttr(s, h, k, v) ==
    IF IsRelation(s.inst[h].type, k) THEN RelAssign(s, h, k, v, <<>>)
    ELSE PropertySet(s, h, k, v)

\* The loop of __init__ over the keyword arguments, in their order
RECURSIVE InitFields(_, _, _)
InitFields(s, h, fields) ==
    IF fields = <<>> \/ s.err # "" THEN s
    ELSE InitFields(SetAttr(s, h, Head(fields).k, Head(fields).v), h, Tail(fields))

\* The id part of Entity.__init__ with every numeric custom id written to the
\* counter
InitIdNoCheck(s, h, T, id) ==
    LET cur == SysLoadOr0(s, <<T, "id">>)
    IN IF id.t = "none"
       THEN LET next == StrOfInt(IntOfStr(cur) + 1)
            IN SysSave([s EXCEPT !.inst[h].id = next], <<T, "id">>, next)
       ELSE IF IsIntStr(id.s) THEN SysSave(s, <<T, "id">>, id.s)
            ELSE s

\* The id part of Entity.__init__ with the counter never written for a
\* custom id
InitIdNoAdvance(s, h, T, id) ==
    LET cur == SysLoadOr0(s, <<T, "id">>)
    IN IF id.t = "none"
       THEN LET next == StrOfInt(IntOfStr(cur) + 1)
            IN SysSave([s EXCEPT !.inst[h].id = next], <<T, "id">>, next)
       ELSE s

\* The id part of Entity.__init__: the next sequential id, or the custom id,
\* which advances the counter when it is numeric and higher
InitId(s, h, T, id) ==
    LET cur == SysLoadOr0(s, <<T, "id">>)
    IN IF id.t = "none"
       THEN LET next == StrOfInt(IntOfStr(cur) + 1)
            IN SysSave([s EXCEPT !.inst[h].id = next], <<T, "id">>, next)
       ELSE IF IsIntStr(id.s) /\ IntOfStr(id.s) > IntOfStr(cur)
            THEN SysSave(s, <<T, "id">>, id.s)
            ELSE s

\* The end of Entity.__init__ once the keyword arguments are set:
\* _do_not_save is cleared and the entity saved; the new instance is returned
InitSave(s, h) ==
    IF s.err # "" THEN s
    ELSE [Save([s EXCEPT !.inst[h].dns = FALSE], h) EXCEPT !.ret = h]

\* Entity.__init__(**kwargs): kw.id is _id (None or a str), kw.loaded is
\* _loaded, kw.fields the other keyword arguments in order
EntityInit(s, T, kw) ==
    LET h == Len(s.inst) + 1
    IN InitSave(
          InitFields(
             [register_entity(
                 InitId([s EXCEPT !.inst = Append(@, NewInst(T, kw.id.s, kw.loaded))],
                        h, T, kw.id), h)
                EXCEPT !.inst[h].dns = TRUE],
             h, kw.fields),
          h)

\* The end of Entity.delete with a count of zero left as it is
CountDownClamp(s, T) ==
    IF s.err # "" THEN s
    ELSE IF count(s, T) > 0 THEN SysSave(s, <<T, "count">>, StrOfInt(count(s, T) - 1))
    ELSE s

\* The end of Entity.delete: the count is decremented, and a count of zero
\* is a ValueError
CountDown(s, T) ==
    IF s.err # "" THEN s
    ELSE IF count(s, T) > 0 THEN SysSave(s, <<T, "count">>, StrOfInt(count(s, T) - 1))
    ELSE Raise(s, "ValueError: Entity count is already zero")

\* The alias part of Entity.delete: the mapping of the alias value, unless
\* it is None, is deleted
DeleteAlias(s, h) ==
    LET o == s.inst[h]
    IN IF s.err # "" \/ Alias(o.type) = "" THEN s
       ELSE IF o.props[Alias(o.type)].t = "none" THEN s
       ELSE DbDelete(s, alias_key(o.type), o.props[Alias(o.type)].s)

\* Entity.delete with the hook consulted after the record has been removed
delete_late_hook(s, h) ==
    LET o == s.inst[h]
        s1 == DbDelete(s, o.type, o.id)
    IN IF s1.err # "" THEN s1
       ELSE IF ~call_entity_hook(o, "", o, PyNone, "delete").allow THEN Raise(s1, "PermissionError: Hook rejected entity deletion")
       ELSE DeleteAlias(CountDown(unregister_entity(s1, o.type, o.id), o.type), h)

\* Entity.delete
delete(s, h) ==
    LET o == s.inst[h]
    IN IF ~call_entity_hook(o, "", o, PyNone, "delete").allow
       THEN Raise([s EXCEPT !.hooks = <<[action |-> "delete", field |-> ""]>>],
                  "PermissionError: Hook rejected entity deletion")
       ELSE DeleteAlias(
               CountDown(unregister_entity(
                            DbDelete([s EXCEPT !.hooks =
                                                 IF o.type \in {"User", "Account"}
                                                 THEN <<[action |-> "delete", field |-> ""]>>
                                                 ELSE @],
                                     o.type, o.id),
                            o.type, o.id), o.type),
               h)

\* Entity.load with the record passed to the class as it was stored
MigrateNever(T, rec) == rec

\* The version part of Entity.load: a record whose "__version__" (1 when
\* the key is absent, written 0) is not the class's goes through migrate and
\* is tagged with the class's version
MigrateOnLoad(T, rec) ==
    IF (IF rec.version = 0 THEN 1 ELSE rec.version) = Version(T) THEN rec
    ELSE [migrate(T, rec, IF rec.version = 0 THEN 1 ELSE rec.version, Version(T))
             EXCEPT !.version = Version(T)]

\* The call of migrate that load makes, as the class sees it
NoteMigrate(s, T, rec) ==
    IF (IF rec.version = 0 THEN 1 ELSE rec.version) = Version(T) THEN s
    ELSE [s EXCEPT !.mig = Append(@, [type |-> T, rec |-> rec,
                                      from |-> IF rec.version = 0 THEN 1 ELSE rec.version,
                                      to |-> Version(T)])]

\* The keyword arguments Entity.load passes to the class: the stored record's
\* public keys in stored order, with _loaded=True
LoadKwargs(rec) ==
    LET T == rec.data.type
        stored == SelectSeq(RelNames(T), LAMBDA r : r \in DOMAIN rec.data.rels
                                                    /\ rec.data.rels[r].form # "absent")
        keys == SelectSeq(Props(T), LAMBDA f : f \in DOMAIN rec.data.props)
        refs(r) == [k \in 1..Len(rec.data.rels[r].ids) |-> StrRef(rec.data.rels[r].ids[k])]
    IN [id |-> PyStr(rec.data.id), loaded |-> TRUE,
        fields |-> [k \in 1..Len(keys) |-> [k |-> keys[k], v |-> rec.data.props[keys[k]]]]
                   \o [k \in 1..Len(stored) |->
                        [k |-> stored[k],
                         v |-> IF rec.data.rels[stored[k]].form = "one"
                               THEN One(refs(stored[k])[1])
                               ELSE List(refs(stored[k]))]]]

\* The end of Entity.load: the new instance's _relations are replaced by the
\* (absent) "relations" entry of the record
SetLoadedRelations(s) ==
    IF s.err # "" THEN s
    ELSE [s EXCEPT !.inst[s.ret].rels = [r \in DOMAIN @ |-> <<>>]]

\* Entity.load(entity_id): the registered instance, or a new one built from
\* the stored record
load(s, T, id) ==
    IF id = <<>> THEN [s EXCEPT !.ret = 0]
    ELSE IF get_entity(s, T, id) # 0 THEN [s EXCEPT !.ret = get_entity(s, T, id)]
    ELSE IF ~DbHas(s, T, id) THEN [s EXCEPT !.ret = 0]
    ELSE SetLoadedRelations(
            EntityInit(NoteMigrate(s, T, s.store[Key(T, id)]), T,
                       LoadKwargs(MigrateOnLoad(T, s.store[Key(T, id)]))))

----------------------------------------------------------------------------
(* Entity.deserialize.  A serialized record is [type, id, version, fields]: *)
(* type is "" and version 0 when the key is absent, id is None or a str,   *)
(* fields are the other keys in dict order, a relation's value being one   *)
(* id or a list of ids.                                                    *)

\* cls.__name__ of the class with the full type name T
ClassName(T) == IF T = "app::User" THEN "User" ELSE T

\* ret.append(entity) / instances.append(instance) when load found one
AppendLoaded(s) ==
    IF s.err # "" \/ s.ret = 0 THEN s ELSE [s EXCEPT !.acc = Append(@, s.ret)]

RECURSIVE LoadSomeLoop(_, _, _, _)
LoadSomeLoop(s, T, from_id, n) ==
    IF s.err # "" \/ Len(s.acc) >= n \/ from_id > max_id(s, T) THEN s
    ELSE LoadSomeLoop(AppendLoaded(load(s, T, StrOfInt(from_id))), T, from_id + 1, n)

\* cls.load_some(from_id, count); the entities loaded are in acc
load_some(s, T, from_id, n) ==
    IF from_id < 1 THEN Raise(s, "ValueError: from_id must be at least 1")
    ELSE IF n < 1 THEN Raise(s, "ValueError: count must be at least 1")
    ELSE LoadSomeLoop([s EXCEPT !.acc = <<>>], T, from_id, n)

\* The loop of instances over the storage keys of the class's qualified
\* name or class name; a record is loaded by the class registered under the
\* type it is stored with. The order of the keys is not modelled.
RECURSIVE InstancesLoop(_, _, _)
InstancesLoop(s, T, keys) ==
    IF s.err # "" \/ keys = {} THEN s
    ELSE InstancesLoop(
            AppendLoaded(IF (CHOOSE k \in keys : TRUE)[1] = T
                            \/ TypeRegistered(s, (CHOOSE k \in keys : TRUE)[1])
                         THEN load(s, (CHOOSE k \in keys : TRUE)[1], (CHOOSE k \in keys : TRUE)[2])
                         ELSE [s EXCEPT !.ret = 0]),
            T, keys \ {CHOOSE k \in keys : TRUE})

\* cls.instances(); the classes of the model have no subclasses
instances(s, T) ==
    InstancesLoop([s EXCEPT !.acc = <<>>], T,
                  {k \in DOMAIN s.store : k[1] \in {T, ClassName(T)}})


\* The version part of deserialize: a record not at the class's version
\* goes through migrate and is tagged
MigrateData(T, data) ==
    LET from == IF data.version = 0 THEN 1 ELSE data.version
        keys == {data.fields[k].k : k \in 1..Len(data.fields)}
        val(f) == data.fields[CHOOSE k \in 1..Len(data.fields) : data.fields[k].k = f].v
        m == migrate(T, [data |-> [props |-> [f \in keys \cap SeqToSet(Props(T)) |-> val(f)]],
                         version |-> data.version], from, Version(T))
        added == SelectSeq(Props(T), LAMBDA f : f \in DOMAIN m.data.props \ keys)
    IN IF from = Version(T) THEN data
       ELSE [data EXCEPT !.version = Version(T),
                         !.fields = @ \o [k \in 1..Len(added) |->
                                            [k |-> added[k], v |-> m.data.props[added[k]]]]]

\* The search of deserialize for an existing entity: by _id if the record
\* has one, else (or when that finds none) by the record's alias value
FindExisting(s, T, data) ==
    LET at == {k \in 1..Len(data.fields) : data.fields[k].k = Alias(T)}
        byId == IF data.id.t = "none" THEN [s EXCEPT !.ret = 0] ELSE load(s, T, data.id.s)
    IN IF Alias(T) = "" \/ at = {} THEN byId
       ELSE IF data.fields[CHOOSE k \in at : TRUE].v.t = "none" THEN byId
       ELSE AliasLookup(byId, T, data.fields[CHOOSE k \in at : TRUE].v.s)

\* The alias part of the update path: when the record's alias value is not
\* the one the entity had (old), the mapping of the old value is deleted
DropOldAlias(s, h, old, data) ==
    LET T == s.inst[h].type
        at == {k \in 1..Len(data.fields) : data.fields[k].k = Alias(T)}
    IN IF s.err # "" \/ Alias(T) = "" \/ at = {} THEN s
       ELSE IF old = data.fields[CHOOSE k \in at : TRUE].v \/ old.t = "none" THEN s
       ELSE DbDelete(s, alias_key(T), old.s)

\* The end of the update path: _do_not_save is cleared, the record's
\* relation values are kept as _pending_relations, the entity is saved
UpdateSave(s, h, data) ==
    IF s.err # "" THEN s
    ELSE [Save([s EXCEPT !.inst[h].dns = FALSE,
                         !.inst[h].pending =
                            SelectSeq(data.fields, LAMBDA f : IsRelation(s.inst[h].type, f.k)
                                                             /\ f.v # One(NoneRef))], h)
             EXCEPT !.ret = h]

\* The update path of deserialize on the entity found: every property of
\* the record is set, in the record's order, under _do_not_save
DeserializeUpdate(s, h, data) ==
    UpdateSave(
       DropOldAlias(
          InitFields([s EXCEPT !.inst[h].dns = TRUE], h,
                     SelectSeq(data.fields, LAMBDA f : ~IsRelation(s.inst[h].type, f.k))),
          h, IF Alias(s.inst[h].type) = "" THEN PyNone ELSE s.inst[h].props[Alias(s.inst[h].type)],
          data),
       h, data)

\* The end of the create path: the record's relation values are kept as
\* _pending_relations of the new entity
SetPending(s, T, data) ==
    IF s.err # "" THEN s
    ELSE [s EXCEPT !.inst[s.ret].pending =
                      SelectSeq(data.fields, LAMBDA f : IsRelation(T, f.k) /\ f.v # One(NoneRef))]

\* The create path of deserialize: the class is called with the record's
\* _id, if any, and its properties
DeserializeCreate(s, T, data) ==
    SetPending(EntityInit(s, T, [id |-> data.id, loaded |-> FALSE,
                                 fields |-> SelectSeq(data.fields,
                                                      LAMBDA f : ~IsRelation(T, f.k))]),
               T, data)

\* The two paths of deserialize after the search
Upsert(s, T, data) ==
    IF s.err # "" THEN s
    ELSE IF s.ret # 0 THEN DeserializeUpdate(s, s.ret, data)
    ELSE DeserializeCreate(s, T, data)

\* The class a record is deserialized as: the class deserialize is called
\* on, or for Entity.deserialize the class registered under the record's
\* type or under its name without the namespace, "" when there is none
TargetClass(s, cls, data) ==
    IF cls # "Entity" THEN cls
    ELSE IF TypeRegistered(s, data.type) THEN data.type
    ELSE IF TypeRegistered(s, ClassName(data.type)) THEN ClassName(data.type)
    ELSE ""

\* deserialize on a class other than Entity: the record's type must be the
\* class's full type name or its name
\* deserialize with the type check made after the upsert
DeserializeLate(s, T, data) ==
    IF data.type # T /\ data.type # ClassName(T)
    THEN Raise([Upsert(FindExisting(s, T, data), T, data) EXCEPT !.err = ""],
               "ValueError: Entity type mismatch")
    ELSE Upsert(FindExisting(NoteMigrate(s, T, [version |-> data.version, data |-> data]),
                             T, MigrateData(T, data)),
                T, MigrateData(T, data))

DeserializeClass(s, T, data) ==
    IF data.type # T /\ data.type # ClassName(T) THEN Raise(s, "ValueError: Entity type mismatch")
    ELSE Upsert(FindExisting(NoteMigrate(s, T, [version |-> data.version, data |-> data]),
                             T, MigrateData(T, data)),
                T, MigrateData(T, data))

\* cls.deserialize(data)
deserialize(s, cls, data) ==
    IF data.type = "" THEN Raise(s, "ValueError: Serialized data must contain '_type' field")
    ELSE IF TargetClass(s, cls, data) = "" THEN Raise(s, "ValueError: Unknown entity type")
    ELSE DeserializeClass(s, TargetClass(s, cls, data), data)

----------------------------------------------------------------------------
(* The lifecycle specification: one class, User, created (with and without *)
(* a caller-supplied id, with accepted and rejected constructor fields),   *)
(* written, deleted and loaded by a caller holding references.             *)

Chars(str) ==
    CASE str = "ab" -> <<"a", "b">>
      [] str = "bob" -> <<"b", "o", "b">>
      [] str = "zz" -> <<"z", "z">>
      [] str = "30" -> <<"3", "0">>
      [] str = "1" -> <<"1">>
      [] str = "2" -> <<"2">>
      [] str = "x" -> <<"x">>

\* Names a caller passes: one the hook rejects, one it accepts
NameInputs == {PyStr(Chars("ab")), PyStr(Chars("bob"))}

\* Ages a caller passes: valid, out of the validator's range, a numeric
\* string, a string int() rejects
AgeInputs == {PyInt(30), PyInt(200), PyStr(Chars("30")), PyStr(Chars("zz"))}

Field(k, v) == [k |-> k, v |-> v]

\* Constructor keyword arguments: each field alone, or both in either order
KwargInputs ==
    {<<>>}
    \cup {<<Field("name", n)>> : n \in NameInputs}
    \cup {<<Field("age", a)>> : a \in AgeInputs}
    \cup {<<Field("name", n), Field("age", a)>> : n \in NameInputs, a \in AgeInputs}
    \cup {<<Field("age", a), Field("name", n)>> : n \in NameInputs, a \in AgeInputs}

\* What the caller saw of the last call: the operation, the instance it was
\* made on (or made), the exception, for a relation call the relation, the
\* entity a single argument names and the list index at which it raised, for
\* a call on a class the type and id it named and the calls of migrate made
Last(op, h, err) ==
    [op |-> op, h |-> h, err |-> err, auto |-> FALSE, rel |-> "", tgt |-> {}, pos |-> 0,
     key |-> <<>>, mig |-> <<>>, out |-> <<>>, hooks |-> <<>>]

\* The program state a call leaves behind and what the caller keeps of it:
\* the exception, the instance a load returned, the reference a successful
\* create or load returned, and the instance a successful delete was made on
Commit(s, l) ==
    /\ store' = s.store
    /\ sys' = s.sys
    /\ reg' = s.reg
    /\ inst' = s.inst
    /\ audit' = s.audit
    /\ caller' = s.caller
    /\ last' = [l EXCEPT !.err = s.err,
                         !.h = IF l.op \in {"load", "lookup", "deserialize"} THEN s.ret ELSE @,
                         !.pos = IF l.op = "assign" THEN s.pos ELSE @,
                         !.mig = s.mig,
                         !.hooks = s.hooks,
                         !.out = IF l.op \in {"instances", "load_some"} THEN s.acc ELSE @]
    /\ held' = IF l.op \in {"create", "load", "lookup", "deserialize"} /\ s.err = "" /\ s.ret # 0
               THEN held \cup {s.ret}
               ELSE held
    /\ gone' = IF l.op = "delete" /\ s.err = "" THEN gone \cup {l.h} ELSE gone

InitEmpty ==
    /\ store = <<>>
    /\ sys = <<>>
    /\ reg = <<>>
    /\ inst = <<>>
    /\ held = {}
    /\ gone = {}
    /\ last = Last("init", 0, "")
    /\ audit = [enabled |-> FALSE, min |-> <<>>, max |-> <<>>, log |-> <<>>]
    /\ caller = "system"

\* User(_id=id, **fields)
Create(id, fields) ==
    /\ Len(inst) < MaxInst
    /\ Commit(EntityInit(Cur, "User", [id |-> id, loaded |-> FALSE, fields |-> fields]),
              [Last("create", Len(inst) + 1, "") EXCEPT !.auto = (id = PyNone)])

\* e.<f> = v
Write(h, f, v) == Commit(PropertySet(Cur, h, f, v), Last("write", h, ""))

\* e.delete()
Delete(h) == Commit(delete(Cur, h), Last("delete", h, ""))

\* User.load(id)
Load(id) ==
    /\ get_entity(Cur, "User", id) # 0 \/ Len(inst) < MaxInst
    /\ Commit(load(Cur, "User", id), Last("load", 0, ""))

\* Database.get_instance().clear_registry()
ClearRegistry ==
    /\ reg # <<>>
    /\ Commit(clear_registry(Cur), Last("clear_registry", 0, ""))

Next ==
    \/ \E id \in {PyNone, PyStr(Chars("1")), PyStr(Chars("2")), PyStr(Chars("x"))},
          fields \in KwargInputs : Create(id, fields)
    \/ \E h \in held, v \in NameInputs : Write(h, "name", v)
    \/ \E h \in held, v \in AgeInputs : Write(h, "age", v)
    \/ \E h \in held : Delete(h)
    \/ \E id \in {StrOfInt(1), StrOfInt(2), StrOfInt(3), Chars("x")} : Load(id)
    \/ ClearRegistry

Spec == InitEmpty /\ [][Next]_vars

----------------------------------------------------------------------------
(* The relation specifications: entities of two related classes, created   *)
(* in this session, whose relation fields are assigned and whose relation   *)
(* lists are changed by a caller holding all of them.                       *)

PerType == 2
MaxList == 2
MaxLoaded == 4

Empty ==
    [store |-> <<>>, sys |-> <<>>, reg |-> <<>>, inst |-> <<>>, audit |-> [enabled |-> FALSE, min |-> <<>>, max |-> <<>>, log |-> <<>>],
     caller |-> "system", err |-> "", ret |-> 0, acc |-> <<>>, pos |-> 0, mig |-> <<>>,
     hooks |-> <<>>]

\* T(), n times
RECURSIVE Populate(_, _, _)
Populate(s, T, n) ==
    IF n = 0 THEN s
    ELSE Populate(EntityInit(s, T, [id |-> PyNone, loaded |-> FALSE, fields |-> <<>>]), T, n - 1)

\* The pairs of related classes: Person and Profile (one-to-one), Department
\* and Employee (one-to-many with many-to-one), Student and Course
\* (many-to-many)
InitWith(s) ==
    /\ store = s.store
    /\ sys = s.sys
    /\ reg = s.reg
    /\ inst = s.inst
    /\ held = 1..Len(s.inst)
    /\ gone = {}
    /\ last = Last("init", 0, "")
    /\ audit = s.audit
    /\ caller = s.caller

Handles(T) == {h \in 1..Len(inst) : inst[h].type = T}

\* The entities of the target class of T.r
GoodRefs(T, r) == {EntRef(h) : h \in Handles(RelDecl(T, r).target)}

\* References that cannot go into T.r: an entity of the owner's class, an id
\* nobody has, and None (which this caller does not assign to a many-to-one
\* field)
BadRefs(T, r) ==
    {EntRef(CHOOSE h \in Handles(T) : \A g \in Handles(T) : h <= g), StrRef(StrOfInt(PerType + 7))}
    \cup (IF RelDecl(T, r).kind = "ManyToOne" THEN {} ELSE {NoneRef})

\* What a caller puts in a relation: an entity of the target class, the id
\* of the first one, or one of the above
RefInputs(T, r) == GoodRefs(T, r) \cup {StrRef(StrOfInt(1))} \cup BadRefs(T, r)

RECURSIVE SeqsUpTo(_, _)
SeqsUpTo(S, n) ==
    IF n = 0 THEN {<<>>}
    ELSE LET shorter == SeqsUpTo(S, n - 1)
         IN shorter \cup {Append(q, x) : q \in {p \in shorter : Len(p) = n - 1}, x \in S}

\* The values a caller assigns: one reference, a list of entities of the
\* target class, or such a list of less than MaxList with an id or a
\* reference that cannot go into T.r at its end
ValueInputs(T, r) ==
    {One(x) : x \in RefInputs(T, r)}
    \cup {List(q) : q \in SeqsUpTo(GoodRefs(T, r), MaxList)}
    \cup {List(Append(q, x)) : q \in SeqsUpTo(GoodRefs(T, r), MaxList - 1),
                                x \in {StrRef(StrOfInt(1))} \cup BadRefs(T, r)}

RECURSIVE Perms(_)
Perms(S) ==
    IF S = {} THEN {<<>>}
    ELSE UNION {{<<x>> \o q : q \in Perms(S \ {x})} : x \in S}

\* The orders in which the sets made from an assigned value may be iterated
Orders(T, r, val) ==
    IF val.list /\ \A k \in 1..Len(val.items) : val.items[k] \notin BadRefs(T, r)
    THEN Perms(Handles(RelDecl(T, r).target))
    ELSE {<<>>}

\* What a caller adds to a relation list (None only to a one-to-many list)
AddInputs(T, r) ==
    RefInputs(T, r) \ (IF RelDecl(T, r).kind = "ManyToMany" THEN {NoneRef} ELSE {})

\* The entity a single value names, if any
Targets(s, T, r, val) ==
    LET x == val.items[1]
    IN IF val.list THEN {}
       ELSE IF x.k = "ent" THEN {x.h}
       ELSE IF x.k = "str" THEN {get_entity(s, RelDecl(T, r).target, x.s)} \ {0}
       ELSE {}

\* inst[h].<r> = val
Assign(h, r, val, ord) ==
    Commit(RelAssign(Cur, h, r, val, ord),
           [Last("assign", h, "") EXCEPT !.rel = r, !.tgt = Targets(Cur, inst[h].type, r, val),
                                         !.key = IF val.list
                                                 THEN [items |-> SeqToSet(val.items)]
                                                 ELSE IF val = One(NoneRef)
                                                 THEN [none |-> TRUE]
                                                 ELSE <<>>])

\* inst[h].<r>.add(ref)
ListAdd(h, r, ref) ==
    Commit(RelationListAdd(Cur, h, r, ref),
           [Last("add", h, "") EXCEPT !.rel = r, !.tgt = Targets(Cur, inst[h].type, r, One(ref))])

\* inst[h].<r>.remove(ref)
ListDel(h, r, ref) ==
    Commit(RelationListRemove(Cur, h, r, ref),
           [Last("remove", h, "") EXCEPT !.rel = r, !.tgt = Targets(Cur, inst[h].type, r, One(ref))])

\* inst[h].add_relation(r, reverse of r, inst[other])
AddRelation(h, r, other) ==
    Commit(add_relation(Cur, h, r, RelDecl(inst[h].type, r).reverse, other),
           [Last("add_relation", h, "") EXCEPT !.rel = r, !.tgt = {other}])

\* inst[h].remove_relation(r, reverse of r, inst[other])
RemoveRelation(h, r, other) ==
    Commit(remove_relation(Cur, h, r, RelDecl(inst[h].type, r).reverse, other),
           [Last("remove_relation", h, "") EXCEPT !.rel = r, !.tgt = {other}])

NextRel ==
    \/ \E h \in held : \E r \in SeqToSet(RelNames(inst[h].type)) :
          \E val \in ValueInputs(inst[h].type, r) : \E ord \in Orders(inst[h].type, r, val) :
             Assign(h, r, val, ord)
    \/ \E h \in held : \E r \in {q \in SeqToSet(RelNames(inst[h].type)) : RelDecl(inst[h].type, q).kind \in {"OneToMany", "ManyToMany"}} :
          \E ref \in AddInputs(inst[h].type, r) : ListAdd(h, r, ref)
    \/ \E h \in held : \E r \in {q \in SeqToSet(RelNames(inst[h].type)) : RelDecl(inst[h].type, q).kind \in {"OneToMany", "ManyToMany"}} :
          \E ref \in RefInputs(inst[h].type, r) : ListDel(h, r, ref)
    \/ \E h \in held : \E r \in {q \in SeqToSet(RelNames(inst[h].type)) : RelDecl(inst[h].type, q).kind = "ManyToMany"} :
          \E other \in Handles(RelDecl(inst[h].type, r).target) : AddRelation(h, r, other)
    \/ \E h \in held : \E r \in {q \in SeqToSet(RelNames(inst[h].type)) : RelDecl(inst[h].type, q).kind = "ManyToMany"} :
          \E other \in Handles(RelDecl(inst[h].type, r).target) : RemoveRelation(h, r, other)

SpecRel ==
    /\ \E c \in {<<"Person", "Profile">>, <<"Department", "Employee">>, <<"Student", "Course">>} :
          InitWith(Populate(Populate(Empty, c[1], PerType), c[2], PerType))
    /\ [][NextRel]_vars

\* The one-to-one specification: a Citizen, a Passport and a Licence; the
\* caller assigns None or any entity, of whatever class, to a one-to-one
\* field
NextKind ==
    \E h \in held : \E r \in SeqToSet(RelNames(inst[h].type)) :
       \E x \in {NoneRef} \cup {EntRef(e) : e \in 1..Len(inst)} : Assign(h, r, One(x), <<>>)

SpecKind ==
    /\ InitWith(Populate(Populate(Populate(Empty, "Citizen", 1), "Passport", 1), "Licence", 1))
    /\ [][NextKind]_vars

----------------------------------------------------------------------------
(* The ownership specification: Record entities, which have the            *)
(* TimestampedMixin, created and written while the caller id changes.      *)

\* T(**fields), for a class T
CreateAuto(T, fields) ==
    /\ Len(inst) < MaxInst
    /\ Commit(EntityInit(Cur, T, [id |-> PyNone, loaded |-> FALSE, fields |-> fields]),
              [Last("create", Len(inst) + 1, "") EXCEPT !.auto = TRUE])

NextOwn ==
    \/ \E c \in {"alice", "bob"} :
          \* os.environ["CALLER_ID"] = c
          /\ c # caller
          /\ Commit([Cur EXCEPT !.caller = c], Last("set_caller", 0, ""))
    \/ \E v \in NameInputs : CreateAuto("Record", <<Field("value", v)>>)
    \/ \E h \in held, v \in NameInputs : Write(h, "value", v)

SpecOwn == InitEmpty /\ [][NextOwn]_vars

----------------------------------------------------------------------------
(* The alias and deletion-hook specification: Account, whose hook rejects  *)
(* the deletion of a protected account, and AliasEntity, which is looked   *)
(* up by its alias field "name"; entities are created with sequential ids, *)
(* renamed, deleted and looked up.                                         *)

\* A call that may build an instance is made while there is room for it
CommitBounded(n, s, l) == Len(s.inst) <= n /\ Commit(s, l)

NextAlias ==
    \/ \E n \in NameInputs, p \in {PyInt(0), PyInt(1)} :
          CreateAuto("Account", <<Field("name", n), Field("is_protected", p)>>)
    \/ \E n \in NameInputs : CreateAuto("AliasEntity", <<Field("name", n)>>)
    \/ \E h \in held, v \in NameInputs : Write(h, "name", v)
    \/ \E h \in held : Delete(h)
    \/ \E k \in {Chars("ab"), Chars("bob"), StrOfInt(1)} :
          \* AliasEntity[k]
          CommitBounded(MaxInst, class_getitem(Cur, "AliasEntity", k), Last("lookup", 0, ""))

SpecAlias == InitEmpty /\ [][NextAlias]_vars

----------------------------------------------------------------------------
(* The audit specification: a Database with auditing enabled, used through *)
(* the engine (save, update and delete of dictionaries stored under        *)
(* "person") and through the entity layer (Record entities created and     *)
(* written).                                                               *)

\* Calls are made while the audit log holds fewer records than this
MaxAudit == 5

\* db.save(T, id, data)
EngineSave(T, id, data) ==
    /\ Cardinality(DOMAIN audit.log) < MaxAudit
    /\ Commit(DbSave(Cur, T, id, data), Last("engine_save", 0, ""))

\* Database.get_audit(id_from, id_to) on the audit store a: the ids of the
\* entries it returns; a bound that is None or 0 is replaced by _min_id or
\* _max_id
get_audit(a, id_from, id_to) ==
    {i \in (IF id_from.t = "none" \/ id_from.i = 0 THEN IntOfStr(a.min) ELSE id_from.i)
             .. (IF id_to.t = "none" \/ id_to.i = 0 THEN IntOfStr(a.max) ELSE id_to.i) - 1 :
        StrOfInt(i) \in DOMAIN a.log}

\* db.get_audit(id_from, id_to); last.out holds the set of ids returned
GetAudit(id_from, id_to) ==
    Commit(Cur, [Last("get_audit", 0, "") EXCEPT !.key = <<id_from, id_to>>,
                                                 !.out = <<get_audit(audit, id_from, id_to)>>])

\* T.load(id); an entity with relations is loaded together with its partners
LoadT(T, id) ==
    CommitBounded(IF RelNames(T) # <<>> THEN MaxLoaded ELSE MaxInst,
                  load(Cur, T, id), [Last("load", 0, "") EXCEPT !.key = Key(T, id)])

\* The engine is called with the id "1", two dictionaries and two ages, and
\* asked for the audit entries between each two bounds; the identity map is
\* cleared and the Record 1 loaded
NextAudit ==
    \/ \E d \in {[name |-> PyStr(Chars("bob")), age |-> PyInt(30)],
                 [name |-> PyStr(Chars("ab")), age |-> PyInt(30)]} :
          EngineSave("person", StrOfInt(1), d)
    \/ \E v \in {PyInt(30), PyInt(200)} :
          /\ Cardinality(DOMAIN audit.log) < MaxAudit
          /\ Commit(DbUpdate(Cur, "person", StrOfInt(1), "age", v), Last("engine_update", 0, ""))
    \/ /\ Cardinality(DOMAIN audit.log) < MaxAudit
       /\ Commit(DbDelete(Cur, "person", StrOfInt(1)), Last("engine_delete", 0, ""))
    \/ \E a, b \in {PyNone} \cup {PyInt(i) : i \in 0..MaxAudit} : GetAudit(a, b)
    \/ \E v \in NameInputs :
          Cardinality(DOMAIN audit.log) < MaxAudit /\ CreateAuto("Record", <<Field("value", v)>>)
    \/ \E h \in held, v \in NameInputs :
          Cardinality(DOMAIN audit.log) < MaxAudit /\ Write(h, "value", v)
    \/ ClearRegistry
    \/ Cardinality(DOMAIN audit.log) < MaxAudit /\ LoadT("Record", StrOfInt(1))

\* The database is constructed with audit_enabled=True
SpecAudit == InitWith([Empty EXCEPT !.audit = [enabled |-> TRUE, min |-> <<"0">>, max |-> <<"0">>, log |-> <<>>]]) /\ [][NextAudit]_vars

----------------------------------------------------------------------------
(* The serialization specification: AliasEntity entities are created,      *)
(* deleted and deserialized from records with and without a type, an id    *)
(* and each field, on the class and on Entity, with the identity map       *)
(* cleared in between; a User is constructed with an age the validator     *)
(* rejects, and deserialized from a record.                                *)

\* cls.deserialize(data); an entity with relations is loaded together with
\* its partners
Deserialize(cls, data) ==
    CommitBounded(IF cls \in {"Department", "Employee"} THEN MaxLoaded ELSE MaxInst,
                  deserialize(Cur, cls, data),
                  [Last("deserialize", 0, "") EXCEPT !.key = Key(cls, data)])

NextSer ==
    \/ CreateAuto("AliasEntity", <<Field("name", PyStr(Chars("ab")))>>)
    \/ CreateAuto("User", <<Field("age", PyInt(200))>>)
    \/ \E h \in held : Delete(h)
    \/ ClearRegistry
    \/ \E d \in [type : {"AliasEntity"}, version : {0},
                  id : {PyNone, PyStr(StrOfInt(1)), PyStr(StrOfInt(2))},
                  fields : {<<>>, <<Field("name", PyStr(Chars("ab")))>>,
                            <<Field("name", PyStr(Chars("bob"))),
                              Field("value", PyStr(Chars("x")))>>}]
                 \cup [type : {"", "Account"}, version : {0}, id : {PyStr(StrOfInt(1))},
                       fields : {<<Field("value", PyStr(Chars("x")))>>}] :
          \E cls \in {"AliasEntity"} \cup (IF d.fields = <<>> \/ d.type # "AliasEntity"
                                          THEN {"Entity"} ELSE {}) :
             Deserialize(cls, d)
    \/ Deserialize("User", [type |-> "User", version |-> 0, id |-> PyStr(StrOfInt(1)),
                            fields |-> <<Field("name", PyStr(Chars("bob")))>>])

SpecSer == InitEmpty /\ [][NextSer]_vars

\* e.serialize() as a record to deserialize: no "__version__", the
\* properties in class order, then the relations that have entities
DataOf(s, h) ==
    LET d == serialize(s, h)
        stored == SelectSeq(RelNames(d.type), LAMBDA r : d.rels[r].form # "absent")
        refs(r) == [k \in 1..Len(d.rels[r].ids) |-> StrRef(d.rels[r].ids[k])]
    IN [type |-> d.type, id |-> PyStr(d.id), version |-> 0,
        fields |-> [k \in 1..Len(Props(d.type)) |->
                      [k |-> Props(d.type)[k], v |-> d.props[Props(d.type)[k]]]]
                   \o [k \in 1..Len(stored) |->
                        [k |-> stored[k],
                         v |-> IF d.rels[stored[k]].form = "one" THEN One(refs(stored[k])[1])
                               ELSE List(refs(stored[k]))]]]

\* The serialization specification with relations: a Department and its
\* Employee; records of both classes with and without the relation field,
\* and what the entities held serialize to, are deserialized, with the
\* identity map cleared in between.
NextSerRel ==
    \/ ClearRegistry
    \/ \E id \in {PyNone, PyStr(StrOfInt(1))},
          fields \in {<<Field("name", PyStr(Chars("bob")))>>,
                       <<Field("name", PyStr(Chars("bob"))),
                         Field("department", One(StrRef(StrOfInt(1))))>>} :
          Deserialize("Employee", [type |-> "Employee", id |-> id, version |-> 0,
                                   fields |-> fields])
    \/ \E fields \in {<<Field("name", PyStr(Chars("bob")))>>,
                       <<Field("employees", List(<<StrRef(StrOfInt(1))>>))>>} :
          Deserialize("Department", [type |-> "Department", id |-> PyStr(StrOfInt(1)),
                                     version |-> 0, fields |-> fields])
    \/ \E h \in held : Deserialize(inst[h].type, DataOf(Cur, h))

SpecSerRel ==
    /\ InitWith(RelAssign(Populate(Populate(Empty, "Department", 1), "Employee", 1),
                          1, "employees", List(<<EntRef(2)>>), <<>>))
    /\ [][NextSerRel]_vars

\* Entities one behaviour of the specification below deletes
MaxGone == 1

\* The load specification with relations: two entities of a pair of related
\* classes, the first linked to the second, are deleted and loaded, with the
\* identity map cleared in between.
NextLoadRel ==
    \/ ClearRegistry
    \/ \E h \in held : Cardinality(gone) < MaxGone /\ Delete(h)
    \/ \E T \in {inst[1].type, inst[2].type} : LoadT(T, StrOfInt(1))

SpecLoadRel ==
    /\ \E c \in {<<"Person", "Profile", "profile", One(EntRef(2))>>,
                  <<"Department", "Employee", "employees", List(<<EntRef(2)>>)>>,
                  <<"Student", "Course", "courses", List(<<EntRef(2)>>)>>} :
          InitWith(RelAssign(Populate(Populate(Empty, c[1], 1), c[2], 1), 1, c[3], c[4], <<>>))
    /\ [][NextLoadRel]_vars

----------------------------------------------------------------------------
(* The migration specification: Product is at version 2; records of        *)
(* version 1, with and without the "__version__" key and with and without  *)
(* a price, are put into the store through the engine, products are        *)
(* created, and both are loaded, with the identity map cleared in between. *)

NextMig ==
    \/ \E id \in {StrOfInt(1), StrOfInt(2)}, v \in {0, 1},
          p \in {[name |-> PyStr(Chars("bob"))],
                 [name |-> PyStr(Chars("bob")), price |-> [t |-> "float", i |-> 500, s |-> <<>>]]} :
          EngineSave("Product", id,
                     [data |-> [type |-> "Product", id |-> id, props |-> p, rels |-> <<>>,
                                mix |-> NewInst("Product", id, FALSE).mix],
                      version |-> v])
    \/ CreateAuto("Product", <<Field("name", PyStr(Chars("ab")))>>)
    \/ \E id \in {StrOfInt(1), StrOfInt(2), StrOfInt(3)} : LoadT("Product", id)
    \/ ClearRegistry

SpecMig == InitEmpty /\ [][NextMig]_vars

\* cls.instances() and cls.load_some(from_id, count)
Instances(T) ==
    CommitBounded(MaxLoaded, instances(Cur, T), [Last("instances", 0, "") EXCEPT !.key = <<T>>])

LoadSome(T, from_id, n) ==
    CommitBounded(MaxLoaded, load_some(Cur, T, from_id, n),
                  [Last("load_some", 0, "") EXCEPT !.key = <<T, from_id, n>>])

\* The scanning specification: User and the class of the same name in the
\* namespace "app"; entities of both are created (a User also with an age
\* its validator refuses), deleted, loaded, listed and paged, with the
\* identity map cleared in between.
NextScan ==
    \/ \E T \in {"User", "app::User"} : CreateAuto(T, <<Field("name", PyStr(Chars("bob")))>>)
    \/ CreateAuto("User", <<Field("age", PyInt(200))>>)
    \/ \E h \in held \ gone : Delete(h)
    \/ ClearRegistry
    \/ \E T \in {"User", "app::User"} : LoadT(T, StrOfInt(1))
    \/ \E T \in {"User", "app::User"} : Instances(T)
    \/ \E T \in {"User", "app::User"}, from_id \in 0..2, n \in 0..2 : LoadSome(T, from_id, n)

SpecScan == InitEmpty /\ [][NextScan]_vars

----------------------------------------------------------------------------
(* Properties *)

KeyOf(h) == Key(inst[h].type, inst[h].id)

\* C1: count(T) equals the number of records stored under T, after any
\* sequence of successful or failed creates and of deletes.
CountMatchesRecords ==
    count(Cur, "User") = Cardinality({k \in DOMAIN store : k[1] = "User"})

MaxIdMonotonic ==
    [][/\ max_id([sys |-> sys'], "User") >= max_id(Cur, "User")
       /\ (last'.op = "create" /\ last'.auto)
             => /\ inst'[last'.h].id = StrOfInt(max_id(Cur, "User") + 1)
                /\ \A k \in 1..Len(inst) : inst[k].id # inst'[last'.h].id]_vars

\* The instance with id 2 was deleted, the counter stands at 2, and the next
\* create without an id has made the instance with id 3
C3Witness ==
    /\ last.op = "create" /\ last.auto /\ last.err = ""
    /\ \E g \in gone : inst[g].id = StrOfInt(2)
    /\ inst[last.h].id = StrOfInt(3)

\* C4: load(T, id) returns the same instance from one call to the next, until
\* the identity map is cleared or the instance is deleted.
LoadReturnsSameInstance ==
    [][(last'.op \notin {"clear_registry", "delete"})
          => \A k \in DOMAIN reg : k \in DOMAIN reg' /\ reg'[k] = reg[k]]_vars

\* C5: once delete() of an instance has succeeded, a property write on that
\* instance does not make a record for its (type, id) exist again.
DeletedIsTerminal ==
    [][(last'.op = "write" /\ last'.h \in gone /\ KeyOf(last'.h) \notin DOMAIN store)
          => KeyOf(last'.h) \notin DOMAIN store']_vars

\* C6: a create in which the hook or a validator rejects a constructor field
\* persists no record and leaves count(T) unchanged, whichever field it is.
RejectedCreatePersistsNothing ==
    [][(last'.op = "create" /\ last'.err \in {"ValueError: Hook rejected change", "ValueError: Invalid value"})
          => /\ store' = store
             /\ count([sys |-> sys'], "User") = count(Cur, "User")]_vars

\* C7: every Employee is in the employees list of at most one Department,
\* once, and its department field is then that Department; an Employee added
\* to a Department's list is in that list.
SingleOwner ==
    /\ \A e \in Handles("Employee") :
          /\ Cardinality({d \in Handles("Department") : InList(Cur, e, inst[d].rels["employees"])}) <= 1
          /\ \A d \in Handles("Department") :
                InList(Cur, e, inst[d].rels["employees"])
                   => /\ inst[e].rels["department"] = <<d>>
                      /\ Cardinality({k \in 1..Len(inst[d].rels["employees"]) :
                                         inst[d].rels["employees"][k] = e}) = 1
    /\ (last.op = "add" /\ last.err = "" /\ last.rel = "employees")
          => \A e \in last.tgt : InList(Cur, e, inst[last.h].rels["employees"])

\* The second Department has been assigned a list with the first Employee,
\* who was in the first Department's list with the second Employee
C7Witness ==
    /\ last.op = "assign" /\ last.err = "" /\ last.rel = "employees" /\ last.h = 2
    /\ inst[2].rels["employees"] = <<3>>
    /\ inst[1].rels["employees"] = <<4>>
    /\ inst[3].rels["department"] = <<2>>
    /\ store[Key("Department", StrOfInt(2))].data.rels["employees"].ids = <<StrOfInt(1)>>

\* C8: an assignment of an entity b of the target class to a one-to-one field
\* of a returns, and leaves a and b linked to each other and to nobody else.
OneToOneAssignLinks ==
    (last.op = "assign" /\ last.rel \in {"profile", "person"})
       => \A b \in last.tgt :
             inst[b].type = RelDecl(inst[last.h].type, last.rel).target
                => /\ last.err = ""
                   /\ inst[last.h].rels[last.rel] = <<b>>
                   /\ inst[b].rels[RelDecl(inst[last.h].type, last.rel).reverse] = <<last.h>>

\* C9: a relation assignment that fails because an element resolves to no
\* entity, a list is assigned to a single-valued relation or the reverse field
\* is of the wrong kind leaves every entity's edge lists and every stored
\* record as before the call, wherever in the list the failing element is.
FailedAssignChangesNothing ==
    [][(last'.op = "assign" /\ last'.err \in {"ValueError: No entity found with ID or name", "ValueError: cannot be set to multiple values", "ValueError: Reverse property must be"})
          => inst' = inst /\ store' = store]_vars

\* An assignment of a list has failed at its second element, on an owner that
\* has an edge
C9Witness ==
    /\ last.op = "assign" /\ last.err = "ValueError: No entity found with ID or name" /\ last.pos = 2
    /\ inst[last.h].rels[last.rel] # <<>>

\* C10: a property write that the hook denies, that fails the coercion of a
\* string or that fails the validator leaves every entity's in-memory values
\* and every stored record as before the write.
FailedWriteChangesNothing ==
    [][(last'.op = "write" /\ last'.err \in {"ValueError: Hook rejected change", "TypeError: must be of type", "ValueError: Invalid value"})
          => inst' = inst /\ store' = store /\ sys' = sys]_vars

\* A write on a saved entity has been refused by the validator
C10Witness ==
    /\ last.op = "write" /\ last.err = "ValueError: Invalid value"
    /\ KeyOf(last.h) \in DOMAIN store
    /\ inst[last.h].props["age"] = PyInt(30)
    /\ store[KeyOf(last.h)].data.props["age"] = PyInt(30)

\* C11: when a write to an entity with the TimestampedMixin is rejected
\* because the caller is not its owner (PermissionError), the entity's field
\* values in memory and its stored record are what they were before the write.
OwnerRejectionChangesNothing ==
    [][(last'.op = "write" /\ last'.err = "PermissionError: Only the owner can update this entity")
          => /\ inst'[last'.h].props = inst[last'.h].props
             /\ store' = store]_vars

\* The hook of the instance's class denies the action Delete
HookDeniesDelete(o) == ~call_entity_hook(o, "", o, PyNone, "delete").allow

\* C12: when the hook denies the action Delete, delete() raises the
\* permission error and the stored records (the entity's record and every
\* alias mapping), the identity map and the counters are unchanged.
DeniedDeleteChangesNothing ==
    [][(last'.op = "delete" /\ HookDeniesDelete(inst[last'.h]))
          => /\ last'.err = "PermissionError: Hook rejected entity deletion"
             /\ store' = store
             /\ reg' = reg
             /\ sys' = sys]_vars

\* A protected account's deletion was denied while alias mappings are stored
C12Witness ==
    /\ last.op = "delete"
    /\ last.err = "PermissionError: Hook rejected entity deletion"
    /\ KeyOf(last.h) \in DOMAIN store
    /\ \E k \in DOMAIN store : k[1] = alias_key("AliasEntity")

\* A live entity: an instance that was not deleted, is the identity map's
\* entry for its (type, id) and has a stored record
Live(h) ==
    /\ h \notin gone
    /\ KeyOf(h) \in DOMAIN store
    /\ KeyOf(h) \in DOMAIN reg
    /\ reg[KeyOf(h)] = h

\* C13: after an approved delete() of a live entity e of type T, load(T, e.id)
\* and the lookup by e's alias value return absent, count(T) is one less than
\* before and maxId(T) is what it was.
ApprovedDeleteRemoves ==
    [][(last'.op = "delete" /\ Live(last'.h) /\ ~HookDeniesDelete(inst[last'.h]))
          => LET o == inst[last'.h]
             IN /\ load(Cur', o.type, o.id).ret = 0
                /\ (Alias(o.type) # "" /\ o.props[Alias(o.type)].t # "none")
                      => class_getitem(Cur', o.type, o.props[Alias(o.type)].s).ret = 0
                /\ count(Cur', o.type) = count(Cur, o.type) - 1
                /\ max_id(Cur', o.type) = max_id(Cur, o.type)]_vars

\* C14: count(T) is never negative, and a delete that would decrement a
\* count of zero raises the consistency error and leaves the count at zero.
CountNeverNegative ==
    [][/\ count(Cur', "User") >= 0
       /\ (/\ last'.op = "delete"
           /\ KeyOf(last'.h) \in DOMAIN store
           /\ ~HookDeniesDelete(inst[last'.h])
           /\ count(Cur, "User") = 0)
             => (last'.err = "ValueError: Entity count is already zero" /\ sys' = sys)]_vars

\* A delete found the count at zero and raised
C14Witness ==
    /\ last.op = "delete"
    /\ last.err = "ValueError: Entity count is already zero"
    /\ count(Cur, "User") = 0

\* C15: a create with a caller-supplied id that already has a record raises
\* 'already exists' and leaves the existing entity untouched: the stored
\* records, count(T), maxId(T) and the instance that load(T, id) returns are
\* what they were before the failed create.
DuplicateCreateLeavesExisting ==
    [][(last'.op = "create" /\ last'.err = "ValueError: Entity already exists")
          => /\ store' = store
             /\ sys' = sys
             /\ reg' = reg]_vars

\* C16: when a property write changes the alias value of a live entity, the
\* lookup by the new value returns the entity and the lookup by the old
\* value, which no other entity has, returns absent.
AliasFollowsRename ==
    [][(/\ last'.op = "write"
        /\ last'.err = ""
        /\ Live(last'.h)
        /\ Alias(inst[last'.h].type) # ""
        /\ inst[last'.h].props[Alias(inst[last'.h].type)].t # "none"
        /\ inst'[last'.h].props[Alias(inst[last'.h].type)]
              # inst[last'.h].props[Alias(inst[last'.h].type)]
        /\ \A k \in 1..Len(inst) :
              (k # last'.h /\ inst[k].type = inst[last'.h].type)
                 => inst[k].props[Alias(inst[k].type)]
                       # inst[last'.h].props[Alias(inst[last'.h].type)])
          => LET T == inst[last'.h].type
             IN /\ class_getitem(Cur', T, inst'[last'.h].props[Alias(T)].s).ret = last'.h
                /\ class_getitem(Cur', T, inst[last'.h].props[Alias(T)].s).ret = 0]_vars

\* C17: a create with a caller-supplied id k makes maxId(T) equal to k when k
\* is numeric and greater than maxId(T), and leaves maxId(T) as it is when k
\* is numeric and not greater or is not numeric; a create without an id gets
\* the id maxId(T) + 1.
CustomIdAdvancesMaxId ==
    [][/\ (last'.op = "create" /\ ~last'.auto)
             => LET k == inst'[last'.h].id
                    m == max_id(Cur, "User")
                IN max_id(Cur', "User")
                      = IF IsIntStr(k) /\ IntOfStr(k) > m THEN IntOfStr(k) ELSE m
       /\ (last'.op = "create" /\ last'.auto)
             => inst'[last'.h].id = StrOfInt(max_id(Cur, "User") + 1)]_vars

\* After creates with the ids 2 and 1 the counter stands at 2
C17Witness ==
    /\ last.op = "create" /\ ~last.auto /\ last.err = ""
    /\ inst[last.h].id = StrOfInt(1)
    /\ \E k \in 1..Len(inst) : inst[k].id = StrOfInt(2)
    /\ max_id(Cur, "User") = 2

\* C18: with auditing enabled, each engine-level save, update and delete of
\* a key (an update or delete of a stored key) appends exactly one audit
\* record, which has the call's opcode and the next sequence id.
EngineCallAppendsOne ==
    [][(/\ last'.op \in {"engine_save", "engine_update", "engine_delete"}
        /\ last'.err = ""
        /\ (last'.op = "engine_save" \/ DbHas(Cur, "person", StrOfInt(1))))
          => /\ Cardinality(DOMAIN audit'.log) = Cardinality(DOMAIN audit.log) + 1
             /\ audit.max \in DOMAIN audit'.log
             /\ audit'.log[audit.max].op
                   = (CASE last'.op = "engine_save" -> "save"
                        [] last'.op = "engine_update" -> "update"
                        [] last'.op = "engine_delete" -> "delete")]_vars

\* The keys str(i) for i from a up to b - 1
SeqIds(a, b) == {StrOfInt(i) : i \in a..(b - 1)}

\* C19: the audit log is append-only with consecutive sequence ids: the
\* records are exactly those under "_min_id" .. "_max_id" - 1, a call's
\* records are written from the old "_max_id" on with "_max_id" advanced by
\* one for each, and no call changes or removes a record that was there.
AuditAppendOnly ==
    [][/\ DOMAIN audit'.log = SeqIds(IntOfStr(audit'.min), IntOfStr(audit'.max))
       /\ audit'.min = audit.min
       /\ IntOfStr(audit'.max) >= IntOfStr(audit.max)
       /\ DOMAIN audit'.log
             = DOMAIN audit.log \cup SeqIds(IntOfStr(audit.max), IntOfStr(audit'.max))
       /\ \A k \in DOMAIN audit.log : audit'.log[k] = audit.log[k]]_vars

\* Engine and entity calls have filled the audit log, the last one an engine
\* delete
C19Witness ==
    /\ Cardinality(DOMAIN audit.log) = MaxAudit
    /\ last.op = "engine_delete"
    /\ last.err = ""
    /\ \E k \in DOMAIN audit.log : audit.log[k].key[1] = "Record"

\* C20: with auditing enabled, a successful create through the entity layer
\* appends exactly one audit record, with opcode save and the entity's key,
\* and a successful property write appends exactly one more such record.
EntityCallAppendsOne ==
    [][(last'.op \in {"create", "write"} /\ last'.err = "")
          => /\ Cardinality(DOMAIN audit'.log) = Cardinality(DOMAIN audit.log) + 1
             /\ audit.max \in DOMAIN audit'.log
             /\ audit'.log[audit.max].op = "save"
             /\ audit'.log[audit.max].key
                   = Key(inst'[last'.h].type, inst'[last'.h].id)]_vars

\* C29: an assignment to a relation field of an entity whose class is not
\* the relation's declared target raises, and leaves the owner's edge list of
\* that field and every edge list of the entity as they were.
WrongTypeRejected ==
    [][(last'.op = "assign" /\ last'.h \in 1..Len(inst))
          => \A b \in last'.tgt :
                inst[b].type # RelDecl(inst[last'.h].type, last'.rel).target
                   => /\ last'.err # ""
                      /\ inst'[last'.h].rels[last'.rel] = inst[last'.h].rels[last'.rel]
                      /\ inst'[b].rels = inst[b].rels]_vars

\* C30: after a relation mutation returns, the stored record of every entity
\* whose edge lists the mutation changed (the owner, an added or removed item,
\* a previous owner or partner an item was taken from) lists exactly the
\* entity's edges in memory.
StoredEdgesCurrent ==
    [][(last'.op \in {"assign", "add", "remove", "add_relation", "remove_relation"}
        /\ last'.err = "")
          => \A e \in 1..Len(inst) :
                inst'[e].rels # inst[e].rels
                   => store'[KeyOf(e)].data.rels
                         = [r \in DOMAIN inst'[e].rels |-> SerializeRel([inst |-> inst'], e, r)]]_vars

\* C21: a load that finds no instance in the identity map and reads a
\* record whose version is not the class's calls migrate once, with the
\* record, the stored version (1 when there is none) and the class's
\* version, and leaves the migrated record stored with the class's version; a
\* load of a record at the class's version makes no call of migrate, so a
\* migrated record is not migrated again.
MigratedOnceOnLoad ==
    [][(last'.op = "load" /\ last'.key \in DOMAIN store /\ last'.key \notin DOMAIN reg)
          => LET T == last'.key[1]
                 rec == store[last'.key]
                 from == IF rec.version = 0 THEN 1 ELSE rec.version
             IN IF from = Version(T) THEN last'.mig = <<>>
                ELSE /\ last'.mig = <<[type |-> T, rec |-> rec, from |-> from, to |-> Version(T)]>>
                     /\ last'.err = ""
                     /\ store'[last'.key].version = Version(T)
                     /\ \A f \in DOMAIN migrate(T, rec, from, Version(T)).data.props :
                           store'[last'.key].data.props[f]
                              = migrate(T, rec, from, Version(T)).data.props[f]]_vars

\* A record without version and price has been migrated by a load, the
\* identity map cleared, and the record loaded again without a migration
C21Witness ==
    /\ last.op = "load" /\ last.h # 0 /\ last.mig = <<>>
    /\ Len(inst) = 2 /\ inst[1].id = inst[2].id
    /\ inst[2].props["price"] = [t |-> "float", i |-> 999, s |-> <<>>]
    /\ store[last.key].version = 2

\* The existing entity of class T a serialized record names: by its _id,
\* else (or when there is none of that id) by its alias value, through the
\* alias mapping; <<>> when there is none
Matched(T, data) ==
    LET at == {k \in 1..Len(data.fields) : data.fields[k].k = Alias(T)}
        v == data.fields[CHOOSE k \in at : TRUE].v
    IN IF data.id.t # "none" /\ (Key(T, data.id.s) \in DOMAIN reg \cup DOMAIN store) THEN data.id.s
       ELSE IF Alias(T) = "" \/ at = {} THEN <<>>
       ELSE IF v.t = "none" \/ Key(alias_key(T), v.s) \notin DOMAIN store THEN <<>>
       ELSE IF Key(T, store[Key(alias_key(T), v.s)]) \in DOMAIN reg \cup DOMAIN store
            THEN store[Key(alias_key(T), v.s)]
       ELSE <<>>

\* C22: a deserialize that returns has incremented count(T) by one and kept
\* the record's id, if it has one, when no stored entity matches the record
\* by id or alias value, and has left count(T) and maxId(T) as they were
\* when it updated an existing entity (one that load finds).
DeserializeCounts ==
    [][(last'.op = "deserialize" /\ last'.err = "")
          => LET data == last'.key[2]
                 T == inst'[last'.h].type
             IN IF Matched(T, data) = <<>>
                THEN /\ count(Cur, T) + 1 = IntOfStr(SysLoadOr0([sys |-> sys'], <<T, "count">>))
                     /\ data.id.t # "none" => inst'[last'.h].id = data.id.s
                     /\ Key(T, inst'[last'.h].id) \in DOMAIN store'
                ELSE /\ IntOfStr(SysLoadOr0([sys |-> sys'], <<T, "count">>)) = count(Cur, T)
                     /\ IntOfStr(SysLoadOr0([sys |-> sys'], <<T, "id">>)) = max_id(Cur, T)]_vars

\* C24: when deserialize returns, every relation field of the record whose
\* target entity exists is resolved on the returned entity, and the target
\* has the reverse edge, on the create path and on the update path alike.
RelationsResolved ==
    [][(last'.op = "deserialize" /\ last'.err = "")
          => LET data == last'.key[2]
                 T == inst'[last'.h].type
             IN \A k \in 1..Len(data.fields) :
                   data.fields[k].k \in SeqToSet(RelNames(T))
                      => \A j \in 1..Len(data.fields[k].v.items) :
                            Key(RelDecl(T, data.fields[k].k).target, data.fields[k].v.items[j].s)
                                  \in DOMAIN store
                               => \E t \in 1..Len(inst') :
                                     /\ inst'[t].type = RelDecl(T, data.fields[k].k).target
                                     /\ inst'[t].id = data.fields[k].v.items[j].s
                                     /\ t \in SeqToSet(inst'[last'.h].rels[data.fields[k].k])
                                     /\ last'.h \in SeqToSet(
                                           inst'[t].rels[RelDecl(T, data.fields[k].k).reverse])]_vars

\* C23: a deserialize that matches an existing entity returns that entity
\* and leaves every property and relation the record does not carry as it
\* was, in the instance and in what the entity serializes to.
UpdateKeepsAbsent ==
    [][(last'.op = "deserialize" /\ last'.err = ""
        /\ Matched(inst'[last'.h].type, last'.key[2]) # <<>>)
          => LET data == last'.key[2]
                 T == inst'[last'.h].type
                 given == {data.fields[k].k : k \in 1..Len(data.fields)}
                 before == IF Key(T, Matched(T, data)) \in DOMAIN reg
                           THEN serialize(Cur, reg[Key(T, Matched(T, data))])
                           ELSE store[Key(T, Matched(T, data))].data
                 after == serialize([inst |-> inst'], last'.h)
             IN /\ inst'[last'.h].id = Matched(T, data)
                /\ \A f \in SeqToSet(Props(T)) \ given :
                      f \in DOMAIN before.props => after.props[f] = before.props[f]
                /\ \A r \in SeqToSet(RelNames(T)) \ given :
                      r \in DOMAIN before.rels => after.rels[r] = before.rels[r]]_vars

\* C25: deserialize(serialize(e)) of a persisted entity returns an entity of
\* the same type and id that serializes to the same record, and the count of
\* its type is unchanged.
RoundTripEqual ==
    [][(last'.op = "deserialize"
        /\ \E h \in held : /\ KeyOf(h) \in DOMAIN store
                            /\ KeyOf(h) = Key(last'.key[1], last'.key[2].id.s)
                            /\ last'.key[2] = DataOf(Cur, h))
          => /\ last'.err = ""
             /\ DataOf([inst |-> inst'], last'.h) = last'.key[2]
             /\ IntOfStr(SysLoadOr0([sys |-> sys'], <<last'.key[1], "count">>))
                   = count(Cur, last'.key[1])]_vars

\* C26: deserialize of a record without a type, of a type no class is
\* registered for, or of a type other than the invoking class raises a
\* ValueError and leaves the store, the counters, the alias mappings and the
\* identity map as they were.
BadTypeChangesNothing ==
    [][(last'.op = "deserialize"
        /\ LET cls == last'.key[1]
               data == last'.key[2]
           IN \/ data.type = ""
              \/ cls # "Entity" /\ data.type \notin {cls, ClassName(cls)}
              \/ cls = "Entity" /\ ~TypeRegistered(Cur, data.type)
                                /\ ~TypeRegistered(Cur, ClassName(data.type)))
          => /\ last'.err \in {"ValueError: Serialized data must contain '_type' field",
                                "ValueError: Unknown entity type",
                                "ValueError: Entity type mismatch"}
             /\ store' = store /\ sys' = sys /\ reg' = reg /\ inst' = inst]_vars

\* A record of another type, under the id of a stored entity, was refused
C26Witness ==
    /\ last.op = "deserialize" /\ last.err = "ValueError: Entity type mismatch"
    /\ Key("AliasEntity", last.key[2].id.s) \in DOMAIN store

\* C28: load_some(from_id, count) with from_id >= 1 and count >= 1 returns,
\* in ascending id order, the first count stored entities of the class with
\* an id from from_id on, fewer when max_id is reached, skipping deleted ids;
\* with from_id < 1 or count < 1 it raises a ValueError and loads nothing.
LoadSomePage ==
    [][last'.op = "load_some"
          => LET T == last'.key[1]
                 from_id == last'.key[2]
                 n == last'.key[3]
                 live == {i \in from_id..max_id(Cur, T) : Key(T, StrOfInt(i)) \in DOMAIN store}
                 out == last'.out
                 idOf(k) == IntOfStr(inst'[out[k]].id)
             IN IF from_id < 1 \/ n < 1
                THEN /\ last'.err \in {"ValueError: from_id must be at least 1",
                                        "ValueError: count must be at least 1"}
                     /\ inst' = inst /\ reg' = reg /\ store' = store
                ELSE /\ last'.err = ""
                     /\ Len(out) = IF n < Cardinality(live) THEN n ELSE Cardinality(live)
                     /\ \A k \in 1..Len(out) :
                           /\ inst'[out[k]].type = T
                           /\ idOf(k) \in live
                           /\ \A j \in 1..(k - 1) : idOf(j) < idOf(k)
                           /\ \A i \in live : i < idOf(k) => \E j \in 1..(k - 1) : idOf(j) = i]_vars

\* C27: User and the User of namespace "app" do not interfere: an operation
\* of one class leaves the other's id counter, count and records as they
\* were, and load, load_some and instances return entities of the class
\* they were called on only.
NamespacesIsolated ==
    [][\A T \in {"User", "app::User"} :
          LET U == IF T = "User" THEN "app::User" ELSE "User"
          IN (\/ last'.op \in {"create", "delete"} /\ inst'[last'.h].type = T
              \/ last'.op \in {"load", "instances", "load_some"} /\ last'.key[1] = T)
                => /\ IntOfStr(SysLoadOr0([sys |-> sys'], <<U, "count">>)) = count(Cur, U)
                   /\ IntOfStr(SysLoadOr0([sys |-> sys'], <<U, "id">>)) = max_id(Cur, U)
                   /\ \A k \in DOMAIN store \cup DOMAIN store' :
                         k[1] = U => k \in DOMAIN store /\ k \in DOMAIN store'
                                     /\ store'[k] = store[k]
                   /\ \A k \in 1..Len(last'.out) : inst'[last'.out[k]].type = T
                   /\ last'.op = "load" /\ last'.h # 0 => inst'[last'.h].type = T]_vars

\* C31: a delete that raises after the hook approved it (count already
\* zero, or the alias mapping to remove not in the store) leaves the record,
\* the identity map, the counters and the alias index as they were.
DeleteAllOrNothing ==
    [][(last'.op = "delete"
        /\ last'.err \notin {"", "PermissionError: Hook rejected entity deletion"})
          => /\ store' = store
             /\ reg' = reg
             /\ sys' = sys]_vars

\* C37: when two live entities of a class have the same alias value and one
\* is deleted, the lookup by that value returns the other, and the other
\* can be deleted without error.
SharedAliasSurvives ==
    [][(last'.op = "delete" /\ last'.err = "")
          => \A g \in 1..Len(inst) :
                (/\ g # last'.h /\ Live(g) /\ Live(last'.h)
                 /\ inst[g].type = inst[last'.h].type
                 /\ Alias(inst[g].type) # ""
                 /\ inst[g].props[Alias(inst[g].type)].t # "none"
                 /\ inst[g].props[Alias(inst[g].type)] = inst[last'.h].props[Alias(inst[g].type)])
                   => /\ class_getitem(Cur', inst[g].type,
                                       inst[g].props[Alias(inst[g].type)].s).ret = g
                      /\ delete(Cur', g).err = ""]_vars

\* C32: after owner.relation = newSet returns for a one-to-many or a
\* many-to-many relation, the owner's edges are the entities of newSet, each
\* once; the entities that were and stay in the relation keep their edges,
\* and the entities in neither set are not modified.
AssignIsSetDifference ==
    [][(last'.op = "assign" /\ last'.err = ""
        /\ RelDecl(inst[last'.h].type, last'.rel).kind \in {"OneToMany", "ManyToMany"}
        /\ DOMAIN last'.key = {"items"})
          => LET h == last'.h
                 r == last'.rel
                 T == RelDecl(inst[h].type, r).target
                 new == {IF x.k = "ent" THEN x.h ELSE get_entity(Cur', T, x.s) :
                            x \in last'.key.items}
                 old == SeqToSet(inst[h].rels[r])
             IN /\ SeqToSet(inst'[h].rels[r]) = new
                /\ Len(inst'[h].rels[r]) = Cardinality(new)
                /\ \A x \in new \cap old : inst'[x].rels = inst[x].rels
                /\ \A e \in (1..Len(inst)) \ (new \cup old \cup {h}) : inst'[e] = inst[e]]_vars

\* C32 amended: as above, except that the previous owner of an entity that
\* a one-to-many assignment takes over is modified: it loses that entity,
\* and nothing else.
AssignIsSetDifferenceButOwners ==
    [][(last'.op = "assign" /\ last'.err = ""
        /\ RelDecl(inst[last'.h].type, last'.rel).kind \in {"OneToMany", "ManyToMany"}
        /\ DOMAIN last'.key = {"items"})
          => LET h == last'.h
                 r == last'.rel
                 T == RelDecl(inst[h].type, r).target
                 rev == RelDecl(inst[h].type, r).reverse
                 new == {IF x.k = "ent" THEN x.h ELSE get_entity(Cur', T, x.s) :
                            x \in last'.key.items}
                 old == SeqToSet(inst[h].rels[r])
                 owners == IF RelDecl(inst[h].type, r).kind = "OneToMany"
                           THEN UNION {SeqToSet(inst[x].rels[rev]) : x \in new \ old}
                           ELSE {}
             IN /\ SeqToSet(inst'[h].rels[r]) = new
                /\ Len(inst'[h].rels[r]) = Cardinality(new)
                /\ \A x \in new \cap old : inst'[x].rels = inst[x].rels
                /\ \A e \in (1..Len(inst)) \ (new \cup old \cup {h} \cup owners) :
                      inst'[e] = inst[e]
                /\ \A d \in owners \ {h} :
                      SeqToSet(inst'[d].rels[r]) = SeqToSet(inst[d].rels[r]) \ new]_vars

\* A one-to-many assignment took an entity over from another owner, and a
\* many-to-many assignment replaced a set by one that overlaps it
C32Witness ==
    /\ last.op = "assign" /\ last.err = "" /\ DOMAIN last.key = {"items"}
    /\ Len(inst[last.h].rels[last.rel]) >= 1
    /\ \E g \in 1..Len(inst) :
          g # last.h /\ inst[g].type = inst[last.h].type /\ inst[g].rels[last.rel] # <<>>

\* C36: assigning None to a one-to-one or many-to-one field that links a to
\* b raises nothing and removes the link on both sides: a's field is empty,
\* b's reverse edges do not hold a, no edge list holds None, and a can be
\* saved.
NoneUnlinks ==
    [][(last'.op = "assign" /\ DOMAIN last'.key = {"none"}
        /\ RelDecl(inst[last'.h].type, last'.rel).kind \in {"OneToOne", "ManyToOne"}
        /\ inst[last'.h].rels[last'.rel] # <<>>
        /\ inst[last'.h].rels[last'.rel][1] # 0)
          => LET a == last'.h
                 r == last'.rel
                 b == inst[a].rels[r][1]
             IN /\ last'.err = ""
                /\ inst'[a].rels[r] = <<>>
                /\ a \notin SeqToSet(inst'[b].rels[RelDecl(inst[a].type, r).reverse])
                /\ \A e \in 1..Len(inst') : \A q \in DOMAIN inst'[e].rels :
                      0 \notin SeqToSet(inst'[e].rels[q])
                /\ Save(Cur', a).err = ""]_vars

\* C38: a create that fails leaves the identity map as it was: load of the
\* id the create was given or had taken returns nothing when no record of
\* that id existed, and the instance it returned before otherwise.
FailedCreateKeepsMap ==
    [][(last'.op = "create" /\ last'.err # "" /\ last'.h <= Len(inst'))
          => LET o == inst'[last'.h]
             IN /\ reg' = reg
                /\ IF Key(o.type, o.id) \in DOMAIN store
                   THEN get_entity(Cur, o.type, o.id) # 0
                           => load(Cur', o.type, o.id).ret = get_entity(Cur, o.type, o.id)
                   ELSE load(Cur', o.type, o.id).ret = 0]_vars

\* C39: a load of an entity whose stored version is the class's version is
\* a pure read: the store, the counters and the audit log are unchanged.
LoadIsPureRead ==
    [][(last'.op = "load" /\ last'.err = ""
        /\ last'.key \in DOMAIN store
        /\ store[last'.key].version = Version(last'.key[1]))
          => /\ store' = store
             /\ sys' = sys
             /\ audit' = audit]_vars

\* C33: the hook is called with "create" for every constructor field of a
\* new entity, with "modify" for a write to an entity that has a record or
\* had one until it was deleted and with "create" for a write to one that
\* was never stored, and with "delete" and no field by delete.
HookActions ==
    [][/\ (last'.op = "create" /\ last'.h <= Len(inst'))
            => \A k \in 1..Len(last'.hooks) : last'.hooks[k].action = "create"
       /\ (last'.op = "write" /\ inst[last'.h].type = "User")
            => last'.hooks = <<[action |-> IF \/ KeyOf(last'.h) \in DOMAIN store
                                             \/ \E g \in gone : KeyOf(g) = KeyOf(last'.h)
                                          THEN "modify" ELSE "create",
                               field |-> last'.hooks[1].field]>>
       /\ (last'.op = "delete" /\ inst[last'.h].type = "User")
            => last'.hooks = <<[action |-> "delete", field |-> ""]>>]_vars

\* C34: for 0 <= from <= to <= _max_id, get_audit(from, to) returns exactly
\* the audit records whose sequence id is at least from and less than to.
GetAuditRange ==
    \A a, b \in 0..MaxAudit :
        (last.op = "get_audit" /\ last.key = <<PyInt(a), PyInt(b)>>
         /\ a <= b /\ b <= IntOfStr(audit.max))
          => last.out[1] = {i \in a..(b - 1) : StrOfInt(i) \in DOMAIN audit.log}

\* C35: once an entity was deleted, a load of any other entity that has a
\* record succeeds, whether or not the record refers to the deleted one.
DeleteKeepsLoadable ==
    [][(/\ last'.op = "load"
        /\ gone # {}
        /\ last'.key \in DOMAIN store
        /\ \A g \in gone : KeyOf(g) # last'.key)
          => last'.err = ""]_vars

\* C40: a load of an entity whose record and its partner's refer to each
\* other returns an instance, and among the registered instances b is in
\* a's edge list for a relation exactly when a is in b's edge list for the
\* reverse relation.
LoadCycleSymmetric ==
    (last.op = "load" /\ gone = {} /\ last.key \in DOMAIN store)
      => /\ last.err = "" /\ last.h # 0
         /\ \A a \in {reg[k] : k \in DOMAIN reg} :
              \A r \in SeqToSet(RelNames(inst[a].type)) :
                 \A b \in {reg[k] : k \in DOMAIN reg} \cap Handles(RelDecl(inst[a].type, r).target) :
                    InList(Cur, b, inst[a].rels[r])
                       <=> InList(Cur, a, inst[b].rels[RelDecl(inst[a].type, r).reverse])

====
